---- MODULE Spec2Model ----
(***************************************************************************)
(* Model of the value-transfer record checks of primitives/transaction.cpp *)
(* and of the wallet ledger operations declared in wallet/wallet.h.        *)
(*                                                                         *)
(* Amounts (CAmount, a signed 64-bit integer in the source) are scaled to  *)
(* a signed IntWidth-bit integer; MAX_MONEY is scaled with it so that, as  *)
(* in the source, a handful of in-range amounts can be added without       *)
(* leaving the integer range while one out-of-range amount added to a      *)
(* positive accumulator can.                                               *)
(***************************************************************************)
EXTENDS Integers, Sequences, FiniteSets, TLC

VARIABLES
    tx,        \* the record under construction / under check (CMutableTransaction -> CTransaction)
    call,      \* the last operation applied to tx and what it returned
    state,     \* the CValidationState handed to that operation, after the call
    mode,      \* which family of operations this run exercises
    mapWallet,        \* CWallet::mapWallet: txid -> ledger entry
    mapTxSpends,      \* CWallet::mapTxSpends: outpoint -> txids, in insertion order
    mapTxNullifiers,  \* CWallet::mapTxNullifiers: nullifier -> txids, in insertion order
    nOrderPosNext,    \* CWallet::nOrderPosNext
    mapNullifiersToNotes,  \* CWallet::mapNullifiersToNotes: note nullifier -> note position
    dbLog,            \* the wallet-store calls of the last SetBestChain, with results
    dbCommitted,      \* what the persistent store holds
    chainTip,         \* the tip the chain-tip notifications have reached
    tipLog,           \* the current run of connections and disconnections
    cs_wallet,        \* CWallet::cs_wallet: the thread holding it, 0 when free
    pc,               \* where each thread is in the wallet operation it runs
    fields,           \* the CWallet fields those operations read and write
    accesses          \* the field accesses made so far, each with whether the lock was held

txVars == <<tx, call, state, mode>>
walletVars == <<mapWallet, mapTxSpends, mapTxNullifiers, nOrderPosNext,
               mapNullifiersToNotes>>
dbVars == <<dbLog, dbCommitted>>
witnessVars == <<chainTip, tipLog>>
lockVars == <<cs_wallet, pc, fields, accesses>>
vars == <<txVars, walletVars, dbVars, witnessVars, lockVars>>

----------------------------------------------------------------------------
(* Bounds of the model                                                     *)

MaxItems == 3          \* elements a builder may push into one record (amount runs)
MaxItemsIn == 3        \* elements a builder may push into one record (input runs)
MaxItemsAll == 2       \* elements a builder may push into one record (all checks together)

----------------------------------------------------------------------------
(* Amount arithmetic                                                       *)

IntWidth == 5
INT_MAX == 2 ^ (IntWidth - 1) - 1
INT_MIN == -(2 ^ (IntWidth - 1))
InInt(v) == INT_MIN <= v /\ v <= INT_MAX

MAX_MONEY == 2
MoneyRange(nValue) == nValue >= 0 /\ nValue <= MAX_MONEY

\* Values a builder puts in an amount field: negative, zero, small, the
\* maximum, and the largest representable integer.
Amounts == {-1, 0, 1, MAX_MONEY, INT_MAX}

\* What a signed addition that leaves the integer range may produce.
UBValues == {INT_MIN, 0, INT_MAX}

\* acc += v : the sum when it is representable, otherwise any of UBValues.
PlusEq(acc, v, ub) == IF InInt(acc + v) THEN acc + v ELSE ub
Overflows(acc, v) == ~InInt(acc + v)

----------------------------------------------------------------------------
(* CValidationState: the sink of (code, reason, score) triples             *)

FreshState == <<>>
Reject(code, reason, level) == [code |-> code, reason |-> reason, score |-> level]
\* state.DoS(level, error(...), code, reason): records the triple, returns false
DoS(st, level, code, reason) == Append(st, Reject(code, reason, level))

----------------------------------------------------------------------------
(* The record                                                              *)

TRANSPARENT_TX_VERSION == 1
MIN_OLD_TX_VERSION == 1
GROTH_TX_VERSION == -3
SC_TX_VERSION == -4

NullPrevout == 0                      \* COutPoint with IsNull()
JSDescription(old, new, nf) == [vpub_old |-> old, vpub_new |-> new, nullifiers |-> nf]
CTxIn(prevout, scriptSigSize) == [prevout |-> prevout, scriptSig |-> scriptSigSize]

\* CTransaction::CTransaction() / CMutableTransaction::CMutableTransaction()
EmptyTx ==
    [nVersion |-> TRANSPARENT_TX_VERSION, vin |-> <<>>, vout |-> <<>>,
     vsc_ccout |-> <<>>, vcl_ccout |-> <<>>, vft_ccout |-> <<>>,
     vjoinsplit |-> <<>>]

Items(t) == Len(t.vin) + Len(t.vout) + Len(t.vjoinsplit)
            + Len(t.vsc_ccout) + Len(t.vcl_ccout) + Len(t.vft_ccout)

RECURSIVE SumSeq(_)
SumSeq(s) == IF s = <<>> THEN 0 ELSE s[1] + SumSeq(Tail(s))

SumTo(s, k) == SumSeq(SubSeq(s, 1, k))
VpubOld(t) == [i \in 1..Len(t.vjoinsplit) |-> t.vjoinsplit[i].vpub_old]
VpubNew(t) == [i \in 1..Len(t.vjoinsplit) |-> t.vjoinsplit[i].vpub_new]

----------------------------------------------------------------------------
(* CTransactionBase::CheckInputsAmount                                     *)

\* the loop body testing only the running total
InputsAmountStep_TotalOnly(acc, js, ub) ==
    LET n == PlusEq(acc, js.vpub_new, ub) IN
    [acc  |-> n,
     ovf  |-> Overflows(acc, js.vpub_new),
     fail |-> ~MoneyRange(n)]

\* one iteration: nCumulatedValueIn += vpub_new, then the two range tests
InputsAmountStep(acc, js, ub) ==
    LET n == PlusEq(acc, js.vpub_new, ub) IN
    [acc  |-> n,
     ovf  |-> Overflows(acc, js.vpub_new),
     fail |-> ~MoneyRange(js.vpub_new) \/ ~MoneyRange(n)]

RECURSIVE CheckInputsAmountLoop(_, _, _, _, _, _)
CheckInputsAmountLoop(vjs, i, acc, ovf, st, ub) ==
    IF i > Len(vjs)
    THEN [ret |-> TRUE, state |-> st, ovf |-> ovf, acc |-> acc]
    ELSE LET s == InputsAmountStep(acc, vjs[i], ub) IN
         IF s.fail
         THEN [ret |-> FALSE,
               state |-> DoS(st, 100, "REJECT_INVALID", "bad-txns-txintotal-toolarge"),
               ovf |-> ovf \/ s.ovf, acc |-> s.acc]
         ELSE CheckInputsAmountLoop(vjs, i + 1, s.acc, ovf \/ s.ovf, st, ub)

CheckInputsAmount(t, st, ub) == CheckInputsAmountLoop(t.vjoinsplit, 1, 0, FALSE, st, ub)

----------------------------------------------------------------------------
(* CTransactionBase::CheckOutputsAmount                                    *)

\* the loop body with the running-total test made before the per-output tests
OutputsAmountVoutStep_TotalFirst(acc, nValue) ==
    IF ~MoneyRange(acc + nValue)
    THEN [reason |-> "bad-txns-txouttotal-toolarge", acc |-> acc + nValue]
    ELSE IF nValue < 0 THEN [reason |-> "bad-txns-vout-negative", acc |-> acc]
    ELSE IF nValue > MAX_MONEY THEN [reason |-> "bad-txns-vout-toolarge", acc |-> acc]
    ELSE [reason |-> "", acc |-> acc + nValue]

\* one iteration of the loop over vout; reason "" means the scan goes on
OutputsAmountVoutStep(acc, nValue) ==
    IF nValue < 0 THEN [reason |-> "bad-txns-vout-negative", acc |-> acc]
    ELSE IF nValue > MAX_MONEY THEN [reason |-> "bad-txns-vout-toolarge", acc |-> acc]
    ELSE IF ~MoneyRange(acc + nValue)
         THEN [reason |-> "bad-txns-txouttotal-toolarge", acc |-> acc + nValue]
         ELSE [reason |-> "", acc |-> acc + nValue]

\* the loop body without the test that vpub_old and vpub_new are not both set
OutputsAmountJsStep_NoBothTest(acc, js) ==
    IF js.vpub_old < 0 THEN [reason |-> "bad-txns-vpub_old-negative", acc |-> acc]
    ELSE IF js.vpub_new < 0 THEN [reason |-> "bad-txns-vpub_new-negative", acc |-> acc]
    ELSE IF js.vpub_old > MAX_MONEY THEN [reason |-> "bad-txns-vpub_old-toolarge", acc |-> acc]
    ELSE IF js.vpub_new > MAX_MONEY THEN [reason |-> "bad-txns-vpub_new-toolarge", acc |-> acc]
    ELSE IF ~MoneyRange(acc + js.vpub_old)
         THEN [reason |-> "bad-txns-txouttotal-toolarge", acc |-> acc + js.vpub_old]
         ELSE [reason |-> "", acc |-> acc + js.vpub_old]

\* one iteration of the loop over the joinsplits
OutputsAmountJsStep(acc, js) ==
    IF js.vpub_old < 0 THEN [reason |-> "bad-txns-vpub_old-negative", acc |-> acc]
    ELSE IF js.vpub_new < 0 THEN [reason |-> "bad-txns-vpub_new-negative", acc |-> acc]
    ELSE IF js.vpub_old > MAX_MONEY THEN [reason |-> "bad-txns-vpub_old-toolarge", acc |-> acc]
    ELSE IF js.vpub_new > MAX_MONEY THEN [reason |-> "bad-txns-vpub_new-toolarge", acc |-> acc]
    ELSE IF js.vpub_new # 0 /\ js.vpub_old # 0
         THEN [reason |-> "bad-txns-vpubs-both-nonzero", acc |-> acc]
    ELSE IF ~MoneyRange(acc + js.vpub_old)
         THEN [reason |-> "bad-txns-txouttotal-toolarge", acc |-> acc + js.vpub_old]
         ELSE [reason |-> "", acc |-> acc + js.vpub_old]

RECURSIVE CheckOutputsAmountJs(_, _, _, _)
CheckOutputsAmountJs(vjs, i, acc, st) ==
    IF i > Len(vjs)
    THEN [ret |-> TRUE, state |-> st, ovf |-> ~InInt(acc), acc |-> acc]
    ELSE LET s == OutputsAmountJsStep(acc, vjs[i]) IN
         IF s.reason # ""
         THEN [ret |-> FALSE, state |-> DoS(st, 100, "REJECT_INVALID", s.reason),
               ovf |-> ~InInt(s.acc), acc |-> s.acc]
         ELSE CheckOutputsAmountJs(vjs, i + 1, s.acc, st)

RECURSIVE CheckOutputsAmountVout(_, _, _, _)
CheckOutputsAmountVout(t, i, acc, st) ==
    IF i > Len(t.vout)
    THEN CheckOutputsAmountJs(t.vjoinsplit, 1, acc, st)
    ELSE LET s == OutputsAmountVoutStep(acc, t.vout[i]) IN
         IF s.reason # ""
         THEN [ret |-> FALSE, state |-> DoS(st, 100, "REJECT_INVALID", s.reason),
               ovf |-> ~InInt(s.acc), acc |-> s.acc]
         ELSE CheckOutputsAmountVout(t, i + 1, s.acc, st)

CheckOutputsAmount(t, st) == CheckOutputsAmountVout(t, 1, 0, st)

----------------------------------------------------------------------------
(* Value getters                                                           *)

\* the iteration testing only the addend
AccumulateStep_ValueOnly(acc, v, ub) ==
    LET n == PlusEq(acc, v, ub) IN
    [acc |-> n, ovf |-> Overflows(acc, v), fail |-> ~MoneyRange(v)]

\* one iteration of an accumulate-then-test loop:
\*   acc += v; if (!MoneyRange(v) || !MoneyRange(acc)) throw
AccumulateStep(acc, v, ub) ==
    LET n == PlusEq(acc, v, ub) IN
    [acc |-> n, ovf |-> Overflows(acc, v), fail |-> ~MoneyRange(v) \/ ~MoneyRange(n)]

RECURSIVE AccumulateLoop(_, _, _, _, _)
AccumulateLoop(vals, i, acc, ovf, ub) ==
    IF i > Len(vals)
    THEN [thrown |-> FALSE, val |-> acc, ovf |-> ovf]
    ELSE LET s == AccumulateStep(acc, vals[i], ub) IN
         IF s.fail
         THEN [thrown |-> TRUE, val |-> 0, ovf |-> ovf \/ s.ovf]
         ELSE AccumulateLoop(vals, i + 1, s.acc, ovf \/ s.ovf, ub)

\* CTransactionBase::GetValueOut(): the sum over vout
CTransactionBase_GetValueOut(t, ub) == AccumulateLoop(t.vout, 1, 0, FALSE, ub)

\* CTransaction::GetValueCcOut(ccout): the sum over one crosschain-output list
GetValueCcOut(ccout, ub) == AccumulateLoop(ccout, 1, 0, FALSE, ub)

\* the last statement adding only two of the three crosschain sums
AddCcOut_NoForward(nValueOut, sc, cl, ft, ub) ==
    LET inner == PlusEq(sc, cl, ub) IN
    [thrown |-> FALSE,
     val    |-> PlusEq(nValueOut, inner, ub),
     ovf    |-> Overflows(sc, cl) \/ Overflows(nValueOut, inner)]

\* the last statement of CTransaction::GetValueOut():
\*   nValueOut += (sc + cl + ft); return nValueOut;
AddCcOut(nValueOut, sc, cl, ft, ub) ==
    LET inner == PlusEq(PlusEq(sc, cl, ub), ft, ub) IN
    [thrown |-> FALSE,
     val    |-> PlusEq(nValueOut, inner, ub),
     ovf    |-> Overflows(sc, cl) \/ Overflows(PlusEq(sc, cl, ub), ft)
                \/ Overflows(nValueOut, inner)]

Thrown(ovf) == [thrown |-> TRUE, val |-> 0, ovf |-> ovf]

\* CTransaction::GetValueOut()
CTransaction_GetValueOut(t, ub) ==
    LET base == CTransactionBase_GetValueOut(t, ub) IN
    IF base.thrown THEN base
    ELSE LET js == AccumulateLoop(VpubOld(t), 1, base.val, base.ovf, ub) IN
         IF js.thrown THEN js
         ELSE LET sc == GetValueCcOut(t.vsc_ccout, ub) IN
              IF sc.thrown THEN Thrown(js.ovf \/ sc.ovf)
              ELSE LET cl == GetValueCcOut(t.vcl_ccout, ub) IN
                   IF cl.thrown THEN Thrown(js.ovf \/ sc.ovf \/ cl.ovf)
                   ELSE LET ft == GetValueCcOut(t.vft_ccout, ub) IN
                        IF ft.thrown THEN Thrown(js.ovf \/ sc.ovf \/ cl.ovf \/ ft.ovf)
                        ELSE LET r == AddCcOut(js.val, sc.val, cl.val, ft.val, ub) IN
                             [r EXCEPT !.ovf = @ \/ js.ovf \/ sc.ovf \/ cl.ovf \/ ft.ovf]

\* CTransaction::GetJoinSplitValueIn()
GetJoinSplitValueIn(t, ub) == AccumulateLoop(VpubNew(t), 1, 0, FALSE, ub)

----------------------------------------------------------------------------
(* CTxCrosschainOut::CheckAmountRange(cumulatedAmount)                      *)

\* CheckAmountRange without the test for a zero amount
CheckAmountRange_ZeroAllowed(nValue, cumulatedAmount, ub) ==
    IF ~MoneyRange(nValue)
    THEN [ret |-> FALSE, cumulatedAmount |-> cumulatedAmount, ovf |-> FALSE]
    ELSE LET n == PlusEq(cumulatedAmount, nValue, ub) IN
         [ret |-> MoneyRange(n), cumulatedAmount |-> n,
          ovf |-> Overflows(cumulatedAmount, nValue)]

CheckAmountRange(nValue, cumulatedAmount, ub) ==
    IF nValue = 0 \/ ~MoneyRange(nValue)
    THEN [ret |-> FALSE, cumulatedAmount |-> cumulatedAmount, ovf |-> FALSE]
    ELSE LET n == PlusEq(cumulatedAmount, nValue, ub) IN
         [ret |-> MoneyRange(n), cumulatedAmount |-> n,
          ovf |-> Overflows(cumulatedAmount, nValue)]

\* CheckAmountRange applied to a list of crosschain outputs with one shared
\* accumulator, stopping at the first output that is refused.
RECURSIVE CheckCcAmounts(_, _, _, _)
CheckCcAmounts(ccouts, i, cumulatedAmount, ub) ==
    IF i > Len(ccouts)
    THEN [ret |-> TRUE, cumulatedAmount |-> cumulatedAmount, ovf |-> FALSE, n |-> i - 1]
    ELSE LET r == CheckAmountRange(ccouts[i], cumulatedAmount, ub) IN
         IF ~r.ret THEN [r EXCEPT !.ret = FALSE] @@ [n |-> i - 1]
         ELSE CheckCcAmounts(ccouts, i + 1, r.cumulatedAmount, ub)

AllCcOut(t) == t.vsc_ccout \o t.vcl_ccout \o t.vft_ccout

----------------------------------------------------------------------------
(* CTransactionBase::CheckInputsDuplication                                *)

\* the transient set remembering only the key met last
InsertUnique_LastOnly(seen, x) == [dup |-> x \in seen, seen |-> {x}]

\* if (set.count(x)) return DoS(...); set.insert(x);
InsertUnique(seen, x) == [dup |-> x \in seen, seen |-> seen \cup {x}]

\* scan of a sequence of keys with a transient set; TRUE when a repeat is met
RECURSIVE ScanForRepeat(_, _, _)
ScanForRepeat(keys, i, seen) ==
    IF i > Len(keys) THEN FALSE
    ELSE LET r == InsertUnique(seen, keys[i]) IN
         IF r.dup THEN TRUE ELSE ScanForRepeat(keys, i + 1, r.seen)

Prevouts(t) == [i \in 1..Len(t.vin) |-> t.vin[i].prevout]

\* the nullifiers in the order the nested loops visit them
RECURSIVE NullifiersFrom(_, _)
NullifiersFrom(vjs, i) ==
    IF i > Len(vjs) THEN <<>> ELSE vjs[i].nullifiers \o NullifiersFrom(vjs, i + 1)
Nullifiers(t) == NullifiersFrom(t.vjoinsplit, 1)

CheckInputsDuplication(t, st) ==
    IF ScanForRepeat(Prevouts(t), 1, {})
    THEN [ret |-> FALSE,
          state |-> DoS(st, 100, "REJECT_INVALID", "bad-txns-inputs-duplicate")]
    ELSE IF ScanForRepeat(Nullifiers(t), 1, {})
    THEN [ret |-> FALSE,
          state |-> DoS(st, 100, "REJECT_INVALID", "bad-joinsplits-nullifiers-duplicate")]
    ELSE [ret |-> TRUE, state |-> st]

----------------------------------------------------------------------------
(* CheckInputsInteraction, CheckVersionBasic, Check*Availability           *)

IsCoinBase(t) == Len(t.vin) = 1 /\ t.vin[1].prevout = NullPrevout
IsScVersion(t) == t.nVersion = SC_TX_VERSION
ccIsNull(t) == t.vsc_ccout = <<>> /\ t.vcl_ccout = <<>> /\ t.vft_ccout = <<>>

MinCbScriptSig == 2
MaxCbScriptSig == 100

\* the coinbase branch testing the scriptSig length before the joinsplits
CheckInputsInteraction_LengthFirst(t, st) ==
    IF IsCoinBase(t)
    THEN IF t.vin[1].scriptSig < MinCbScriptSig \/ t.vin[1].scriptSig > MaxCbScriptSig
         THEN [ret |-> FALSE, state |-> DoS(st, 100, "REJECT_INVALID", "bad-cb-length")]
         ELSE IF Len(t.vjoinsplit) > 0
         THEN [ret |-> FALSE,
               state |-> DoS(st, 100, "REJECT_INVALID", "bad-cb-has-joinsplits")]
         ELSE [ret |-> TRUE, state |-> st]
    ELSE IF \E i \in 1..Len(t.vin) : t.vin[i].prevout = NullPrevout
         THEN [ret |-> FALSE,
               state |-> DoS(st, 10, "REJECT_INVALID", "bad-txns-prevout-null")]
         ELSE [ret |-> TRUE, state |-> st]

CheckInputsInteraction(t, st) ==
    IF IsCoinBase(t)
    THEN IF Len(t.vjoinsplit) > 0
         THEN [ret |-> FALSE,
               state |-> DoS(st, 100, "REJECT_INVALID", "bad-cb-has-joinsplits")]
         ELSE IF t.vin[1].scriptSig < MinCbScriptSig \/ t.vin[1].scriptSig > MaxCbScriptSig
         THEN [ret |-> FALSE, state |-> DoS(st, 100, "REJECT_INVALID", "bad-cb-length")]
         ELSE [ret |-> TRUE, state |-> st]
    ELSE IF \E i \in 1..Len(t.vin) : t.vin[i].prevout = NullPrevout
         THEN [ret |-> FALSE,
               state |-> DoS(st, 10, "REJECT_INVALID", "bad-txns-prevout-null")]
         ELSE [ret |-> TRUE, state |-> st]

CheckVersionBasic(t, st) ==
    IF t.nVersion < MIN_OLD_TX_VERSION /\ t.nVersion # GROTH_TX_VERSION /\ ~IsScVersion(t)
    THEN [ret |-> FALSE,
          state |-> DoS(st, 100, "REJECT_INVALID", "bad-txns-version-too-low")]
    ELSE [ret |-> TRUE, state |-> st]

\* the check asking for an input whatever the joinsplits
CheckInputsAvailability_VinOnly(t, st) ==
    IF t.vin = <<>>
    THEN [ret |-> FALSE, state |-> DoS(st, 10, "REJECT_INVALID", "bad-txns-vin-empty")]
    ELSE [ret |-> TRUE, state |-> st]

CheckInputsAvailability(t, st) ==
    IF t.vin = <<>> /\ t.vjoinsplit = <<>>
    THEN [ret |-> FALSE, state |-> DoS(st, 10, "REJECT_INVALID", "bad-txns-vin-empty")]
    ELSE [ret |-> TRUE, state |-> st]

\* the rejection recorded without returning
CheckOutputsAvailability_NoReturn(t, st) ==
    IF t.vout = <<>> /\ t.vjoinsplit = <<>> /\ ccIsNull(t)
    THEN [ret |-> TRUE, state |-> DoS(st, 10, "REJECT_INVALID", "bad-txns-vout-empty")]
    ELSE [ret |-> TRUE, state |-> st]

CheckOutputsAvailability(t, st) ==
    IF t.vout = <<>> /\ t.vjoinsplit = <<>> /\ ccIsNull(t)
    THEN [ret |-> FALSE, state |-> DoS(st, 10, "REJECT_INVALID", "bad-txns-vout-empty")]
    ELSE [ret |-> TRUE, state |-> st]

----------------------------------------------------------------------------
(* CTransaction::GetValueIn(view)                                          *)

\* CCoinsViewCache: what the view resolves each prevout to, an amount in
\* the money range or nothing (Unresolved); a null prevout resolves to nothing
Unresolved == -1
ViewAmounts == {1, MAX_MONEY}
Views == {v \in [{NullPrevout, 1, 2} -> ViewAmounts \cup {Unresolved}] :
            v[NullPrevout] = Unresolved}

\* one turn of the loop over vin: nResult += view.GetOutputFor(ctxin).nValue,
\* GetOutputFor failing with a fault where it resolves nothing
ValueInStep(acc, out, ub) ==
    IF out = Unresolved THEN [thrown |-> TRUE, acc |-> acc, ovf |-> FALSE]
    ELSE [thrown |-> FALSE, acc |-> PlusEq(acc, out, ub), ovf |-> Overflows(acc, out)]

RECURSIVE ValueInLoop(_, _, _, _, _, _)
ValueInLoop(vin, view, i, acc, ovf, ub) ==
    IF i > Len(vin)
    THEN [thrown |-> FALSE, val |-> acc, ovf |-> ovf]
    ELSE LET s == ValueInStep(acc, view[vin[i].prevout], ub) IN
         IF s.thrown THEN Thrown(ovf)
         ELSE ValueInLoop(vin, view, i + 1, s.acc, ovf \/ s.ovf, ub)

\* CTransaction::GetValueIn(view) as compiled without BITCOIN_TX
GetValueInFull(t, view, ub) ==
    IF IsCoinBase(t) THEN [thrown |-> FALSE, val |-> 0, ovf |-> FALSE]
    ELSE LET ins == ValueInLoop(t.vin, view, 1, 0, FALSE, ub) IN
         IF ins.thrown THEN ins
         ELSE LET js == GetJoinSplitValueIn(t, ub) IN
              IF js.thrown THEN Thrown(ins.ovf \/ js.ovf)
              ELSE [thrown |-> FALSE,
                    val    |-> PlusEq(ins.val, js.val, ub),
                    ovf    |-> ins.ovf \/ js.ovf \/ Overflows(ins.val, js.val)]

\* CTransaction::GetValueIn(view) as compiled with BITCOIN_TX: { return 0; }
GetValueInStub(t, view) == [thrown |-> FALSE, val |-> 0, ovf |-> FALSE]

\* CTransaction::GetValueIn(view): one of the two definitions, by the build
GetValueIn(t, view, ub, BITCOIN_TX) ==
    IF BITCOIN_TX THEN GetValueInStub(t, view) ELSE GetValueInFull(t, view, ub)

----------------------------------------------------------------------------
(* The wallet ledger                                                       *)

\* the record of the last operation applied: none yet
NoCall == [op |-> "none", ret |-> TRUE, thrown |-> FALSE, val |-> 0,
           ovf |-> FALSE, arg |-> <<>>, pre |-> FreshState]

MaxWalletTx == 3                  \* records the ledger may track
TxIds == 1..MaxWalletTx
Outpoints == {1, 2}               \* prior outputs the records may spend
NoteNullifiers == {1}             \* nullifiers the records may reveal

EmptyMap == [k \in {} |-> <<>>]

\* the persistent store: ledger entries written, witness cache size written,
\* best-block locator written (0: none)
EmptyStore == [txs |-> {}, wcs |-> FALSE, best |-> 0]

\* CNoteData(): a note as FindMyNotes creates it, no witness cached yet and
\* witnessHeight the placeholder -1
CNoteData(n) == [nullifier |-> n, witnesses |-> <<>>, witnessHeight |-> -1]

\* the three constructors of CNoteData with every member they initialise:
\* CNoteData(), CNoteData(a), CNoteData(a, n)
NoAddress == <<>>
NoNullifier == <<>>
CNoteData_Default ==
    [address |-> NoAddress, nullifier |-> NoNullifier, witnesses |-> <<>>, witnessHeight |-> -1]
CNoteData_Address(a) ==
    [address |-> <<a>>, nullifier |-> NoNullifier, witnesses |-> <<>>, witnessHeight |-> -1]
CNoteData_AddressNullifier(a, n) ==
    [address |-> <<a>>, nullifier |-> <<n>>, witnesses |-> <<>>, witnessHeight |-> -1]

\* how many notes of the wallet a synced record may carry
NoteCounts == IF mode \in {"witness", "cache"} THEN {0, 1} ELSE {0}

\* no run of chain-tip notifications is being followed
NoRun == [base |-> <<>>, ups |-> 0, downs |-> 0, fatal |-> FALSE]

NumThreads == 2                   \* threads that call into the wallet
Threads == 1..NumThreads
Idle == [op |-> "idle", at |-> "idle"]

\* CWallet::SetNull(): the ledger after construction
SetNull ==
    /\ mapWallet = EmptyMap
    /\ mapTxSpends = [o \in Outpoints |-> <<>>]
    /\ mapTxNullifiers = [n \in NoteNullifiers |-> <<>>]
    /\ nOrderPosNext = 0
    /\ mapNullifiersToNotes = {}

\* the records that claim key k in a spend map, oldest registration first
Claimants(map, k) == map[k]

\* a spend key of the record is already registered for a tracked record
AlreadyClaimed(prevouts, nullifiers) ==
    \/ \E o \in prevouts : mapTxSpends[o] # <<>>
    \/ \E n \in nullifiers : mapTxNullifiers[n] # <<>>

\* the state a record enters the ledger in: a record claiming a key that is
\* already claimed is the conflicted one (first seen wins)
EntryStatus_LastWins(prevouts, nullifiers, inBlock) ==
    IF inBlock THEN "confirmed" ELSE "unconfirmed"

EntryStatus(prevouts, nullifiers, inBlock) ==
    IF AlreadyClaimed(prevouts, nullifiers) THEN "conflicted"
    ELSE IF inBlock THEN "confirmed"
    ELSE "unconfirmed"

\* CWalletObjBase: the amounts an entry may hold a cached value of
CacheFlags ==
    {"fDebitCached", "fCreditCached", "fImmatureCreditCached", "fAvailableCreditCached",
     "fWatchDebitCached", "fWatchCreditCached", "fImmatureWatchCreditCached",
     "fAvailableWatchCreditCached", "fChangeCached"}

\* MarkDirty leaving the cached debit in place
MarkDirty_KeepsDebit(entry) ==
    [entry EXCEPT !.cached = @ \ {"fCreditCached", "fAvailableCreditCached",
                                   "fWatchDebitCached", "fWatchCreditCached",
                                   "fAvailableWatchCreditCached",
                                   "fImmatureWatchCreditCached", "fChangeCached"}]

\* CWalletObjBase::MarkDirty(): the flags it sets to false
MarkDirty(entry) ==
    [entry EXCEPT !.cached = @ \ {"fCreditCached", "fAvailableCreditCached",
                                   "fWatchDebitCached", "fWatchCreditCached",
                                   "fAvailableWatchCreditCached",
                                   "fImmatureWatchCreditCached", "fDebitCached",
                                   "fChangeCached"}]

\* the records registered so far for any spend key of the record
PreviousOwners(prevouts, nullifiers) ==
    UNION {{mapTxSpends[o][i] : i \in 1..Len(mapTxSpends[o])} : o \in prevouts}
    \cup UNION {{mapTxNullifiers[n][i] : i \in 1..Len(mapTxNullifiers[n])} : n \in nullifiers}

\* the records whose caches a registration invalidates: on a collision all
\* previous owners of the key and the record being added
DirtiedBy(wtxid, prevouts, nullifiers) ==
    IF PreviousOwners(prevouts, nullifiers) = {} THEN {}
    ELSE PreviousOwners(prevouts, nullifiers) \cup {wtxid}

\* CWallet::AddToSpends(wtxid): every prevout and every nullifier of the
\* record is added to its multimap, and the owners of a key that collides
\* are marked dirty; wallet is mapWallet with the record inserted
AddToSpends(wtxid, prevouts, nullifiers, wallet) ==
    /\ mapTxSpends' = [o \in Outpoints |->
                          IF o \in prevouts THEN Append(mapTxSpends[o], wtxid)
                          ELSE mapTxSpends[o]]
    /\ mapTxNullifiers' = [n \in NoteNullifiers |->
                              IF n \in nullifiers THEN Append(mapTxNullifiers[n], wtxid)
                              ELSE mapTxNullifiers[n]]
    /\ mapWallet' = [k \in DOMAIN wallet |->
                        IF k \in DirtiedBy(wtxid, prevouts, nullifiers)
                        THEN MarkDirty(wallet[k]) ELSE wallet[k]]

\* the entries that hold a cached debit
DebitCached == {k \in DOMAIN mapWallet : "fDebitCached" \in mapWallet[k].cached}

\* the (prevouts, nullifiers) of the records synced in the cache runs
CacheRunKeys == {<<{1}, {}>>, <<{2}, {}>>, <<{}, {1}>>, <<{1}, {1}>>}

\* what the cache runs remember of the last ledger operation
Synced(h, relevant) ==
    IF mode = "cache"
    THEN /\ call' = [NoCall EXCEPT !.op = "SyncTransaction",
                                   !.arg = [wtxid |-> h, relevant |-> relevant,
                                            debitCached |-> DebitCached,
                                            before |-> IF relevant THEN <<>>
                                                       ELSE walletVars]]
         /\ UNCHANGED <<tx, state, mode>>
    ELSE UNCHANGED txVars

\* a record that does not involve the wallet invalidating the cached amounts
NotInvolvingMe_MarksDirty(h) ==
    /\ mapWallet' = [k \in DOMAIN mapWallet |-> MarkDirty(mapWallet[k])]
    /\ UNCHANGED <<mapTxSpends, mapTxNullifiers, nOrderPosNext, mapNullifiersToNotes>>

\* AddToWalletIfInvolvingMe returning false: the record is not the wallet's,
\* or was not accepted
NotInvolvingMe(h) == UNCHANGED walletVars

\* the note a record of the wallet carries: its nullifier and its position
NoteNullifier(h, n) == h
NotePosition(h, n) == [hash |-> h, n |-> n]

\* CWallet::SyncTransaction(tx, pblock) -> AddToWalletIfInvolvingMe -> AddToWallet
SyncTransaction ==
    \E h \in TxIds, inBlock \in BOOLEAN, mine \in BOOLEAN, accepted \in BOOLEAN :
        IF h \in DOMAIN mapWallet
        THEN \* a record the ledger tracks already: only its block linkage is updated
             /\ mode \in {"store", "cache", "witness", "bind"} => ~inBlock
             /\ mapWallet' =
                   [mapWallet EXCEPT ![h].status =
                        IF @ = "unconfirmed" /\ inBlock /\ accepted THEN "confirmed" ELSE @]
             /\ UNCHANGED <<mapTxSpends, mapTxNullifiers, nOrderPosNext, mapNullifiersToNotes,
                            txVars, dbVars, witnessVars, lockVars>>
        ELSE \E prevouts \in SUBSET Outpoints, nullifiers \in SUBSET NoteNullifiers,
                nNotes \in NoteCounts :
             /\ prevouts \cup nullifiers # {}
             /\ mode \in {"store", "witness", "bind"} =>
                   (prevouts = {1} /\ nullifiers = {} /\ ~inBlock)
             /\ mode \in {"witness", "bind"} => h = Cardinality(DOMAIN mapWallet) + 1
             /\ mode = "cache" =>
                   /\ ~inBlock /\ <<prevouts, nullifiers>> \in CacheRunKeys
                   /\ nNotes = IF <<prevouts, nullifiers>> = <<{1}, {1}>> THEN 1 ELSE 0
             /\ IF ~mine \/ ~accepted
                THEN /\ NotInvolvingMe(h)
                     /\ Synced(h, FALSE)
                     /\ UNCHANGED <<dbVars, witnessVars, lockVars>>
                ELSE /\ AddToSpends(h, prevouts, nullifiers,
                           [k \in DOMAIN mapWallet \cup {h} |->
                               IF k = h
                               THEN [prevouts |-> prevouts, nullifiers |-> nullifiers,
                                     status |-> EntryStatus(prevouts, nullifiers, inBlock),
                                     nOrderPos |-> nOrderPosNext, cached |-> {},
                                     mapNoteData |->
                                        [n \in 1..nNotes |-> CNoteData(NoteNullifier(h, n))]]
                               ELSE mapWallet[k]])
                     /\ nOrderPosNext' = nOrderPosNext + 1
                     /\ mapNullifiersToNotes' = mapNullifiersToNotes \cup
                           {[nullifier |-> NoteNullifier(h, n), note |-> NotePosition(h, n)] :
                               n \in 1..nNotes}
                     /\ Synced(h, TRUE)
                     /\ UNCHANGED <<dbVars, witnessVars, lockVars>>

\* CWalletTx::GetDebit(filter) on a tracked record: the amount is computed
\* and kept in the entry
GetDebit ==
    \E h \in DOMAIN mapWallet :
        /\ "fDebitCached" \notin mapWallet[h].cached
        /\ mapWallet' = [mapWallet EXCEPT ![h].cached = @ \cup {"fDebitCached"}]
        /\ call' = [NoCall EXCEPT !.op = "GetDebit"]
        /\ UNCHANGED <<tx, state, mode, mapTxSpends, mapTxNullifiers, nOrderPosNext, mapNullifiersToNotes, dbVars, witnessVars, lockVars>>

\* GetImmatureCredit(fUseCache = true) on a ledger entry whose immature
\* credit is not cached yet: the amount is computed and cached
GetImmatureCredit ==
    \E h \in DOMAIN mapWallet :
        /\ "fImmatureCreditCached" \notin mapWallet[h].cached
        /\ mapWallet' = [mapWallet EXCEPT ![h].cached = @ \cup {"fImmatureCreditCached"}]
        /\ call' = [NoCall EXCEPT !.op = "GetImmatureCredit"]
        /\ UNCHANGED <<tx, state, mode, mapTxSpends, mapTxNullifiers, nOrderPosNext, mapNullifiersToNotes, dbVars, witnessVars, lockVars>>

\* CWalletObjBase::BindWallet(pwalletIn): pwallet = pwalletIn; MarkDirty();
BindWallet ==
    \E h \in DOMAIN mapWallet :
        /\ mapWallet' = [mapWallet EXCEPT ![h] = MarkDirty(@)]
        /\ call' = [NoCall EXCEPT !.op = "BindWallet", !.arg = h]
        /\ UNCHANGED <<tx, state, mode, mapTxSpends, mapTxNullifiers, nOrderPosNext, mapNullifiersToNotes, dbVars, witnessVars, lockVars>>

----------------------------------------------------------------------------
(* CheckOutputsAreStandard, CheckOutputsCheckBlockAtHeightOpCode            *)

\* chainActive.Height() and nHeight of the runs, and the minimum age
\* getCheckBlockAtHeightMinAge() asks of a referenced block
ChainHeight == 10
CheckBlockAtHeightMinAge == 5

\* txnouttype as ::IsStandard reports it
ScriptTypes ==
    {"TX_NONSTANDARD", "TX_PUBKEYHASH", "TX_PUBKEYHASH_REPLAY", "TX_MULTISIG_REPLAY",
     "TX_NULL_DATA_REPLAY"}

\* CTxOut for the standardness checks: the flag, and what the external
\* routines say of its script and value: ::IsStandard (result, whichType,
\* checkBlockResult.referencedHeight) and IsDust(minRelayTxFee)
StdTxOut(flag, standard, whichType, referencedHeight, dust) ==
    [isFromBackwardTransfer |-> flag, standard |-> standard, whichType |-> whichType,
     referencedHeight |-> referencedHeight, dust |-> dust]

\* the outputs the standardness runs put in a record
TxOutKinds ==
    {StdTxOut(f, TRUE, "TX_PUBKEYHASH_REPLAY", 2, FALSE) : f \in BOOLEAN}
    \cup {StdTxOut(f, TRUE, "TX_PUBKEYHASH", 0, FALSE) : f \in BOOLEAN}
    \cup {StdTxOut(f, FALSE, "TX_NONSTANDARD", 0, FALSE) : f \in BOOLEAN}
    \cup {StdTxOut(f, TRUE, "TX_PUBKEYHASH_REPLAY", 8, FALSE) : f \in BOOLEAN}
    \cup {StdTxOut(f, TRUE, "TX_MULTISIG_REPLAY", 2, FALSE) : f \in BOOLEAN}
    \cup {StdTxOut(f, TRUE, "TX_PUBKEYHASH_REPLAY", 2, TRUE) : f \in BOOLEAN}
    \cup {StdTxOut(FALSE, TRUE, "TX_NULL_DATA_REPLAY", 2, FALSE)}

\* what the checks read outside the record: the script types
\* ForkManager::isTransactionTypeAllowedAtHeight allows at the chain height,
\* fIsBareMultisigStd, and whether the network is regtest
StdEnv(allowed, bare, regtest) ==
    [allowed |-> allowed, fIsBareMultisigStd |-> bare, regtest |-> regtest]
ReplayTypes == {"TX_PUBKEYHASH_REPLAY", "TX_MULTISIG_REPLAY", "TX_NULL_DATA_REPLAY"}
StdEnvs ==
    {StdEnv(ReplayTypes, FALSE, FALSE), StdEnv(ScriptTypes, FALSE, FALSE),
     StdEnv(ReplayTypes, TRUE, FALSE), StdEnv(ReplayTypes, FALSE, TRUE)}

\* the body of the loop of CheckOutputsAreStandard for one output: the
\* reason it returns false with, or "" when the loop goes on
StandardStep(txout, coinbase, nHeight, env) ==
    IF ~txout.standard THEN "scriptpubkey"
    ELSE IF txout.referencedHeight > 0
            /\ (nHeight - txout.referencedHeight) < CheckBlockAtHeightMinAge
    THEN "scriptpubkey checkblockatheight: referenced block too recent"
    ELSE IF ~txout.isFromBackwardTransfer /\ ~coinbase /\ txout.whichType \notin env.allowed
    THEN "op-checkblockatheight-needed"
    ELSE IF txout.whichType = "TX_NULL_DATA_REPLAY" THEN ""
    ELSE IF txout.whichType = "TX_MULTISIG_REPLAY" /\ ~env.fIsBareMultisigStd
    THEN "bare-multisig"
    ELSE IF txout.dust /\ ~env.regtest THEN "dust"
    ELSE ""

RECURSIVE StandardLoop(_, _, _, _, _, _)
StandardLoop(vout, i, nDataOut, coinbase, nHeight, env) ==
    IF i > Len(vout)
    THEN IF nDataOut > 1 THEN [ret |-> FALSE, reason |-> "multi-op-return"]
         ELSE [ret |-> TRUE, reason |-> ""]
    ELSE LET r == StandardStep(vout[i], coinbase, nHeight, env) IN
         IF r # "" THEN [ret |-> FALSE, reason |-> r]
         ELSE StandardLoop(vout, i + 1,
                           IF vout[i].whichType = "TX_NULL_DATA_REPLAY"
                           THEN nDataOut + 1 ELSE nDataOut,
                           coinbase, nHeight, env)

\* CTransactionBase::CheckOutputsAreStandard(nHeight, reason): the build
\* with BITCOIN_TX has the one-line definition that returns true
CheckOutputsAreStandard(t, nHeight, env, BITCOIN_TX) ==
    IF BITCOIN_TX THEN [ret |-> TRUE, reason |-> ""]
    ELSE StandardLoop(t.vout, 1, 0, IsCoinBase(t), nHeight, env)

\* the first output the loop of CheckOutputsCheckBlockAtHeightOpCode
\* returns at, 0 if it runs to the end
RECURSIVE OpCodeLoop(_, _, _, _)
OpCodeLoop(vout, i, coinbase, env) ==
    IF i > Len(vout) THEN 0
    ELSE IF vout[i].isFromBackwardTransfer THEN OpCodeLoop(vout, i + 1, coinbase, env)
    ELSE IF ~coinbase /\ vout[i].whichType \notin env.allowed THEN i
    ELSE OpCodeLoop(vout, i + 1, coinbase, env)

\* the check without the test of the flag
CheckOutputsCheckBlockAtHeightOpCode_NoSkip(t, st, env) ==
    IF ~IsCoinBase(t) /\ \E i \in 1..Len(t.vout) : t.vout[i].whichType \notin env.allowed
    THEN [ret |-> FALSE,
          state |-> DoS(st, 0, "REJECT_CHECKBLOCKATHEIGHT_NOT_FOUND",
                        "op-checkblockatheight-needed")]
    ELSE [ret |-> TRUE, state |-> st]

\* CTransactionBase::CheckOutputsCheckBlockAtHeightOpCode(state)
CheckOutputsCheckBlockAtHeightOpCode(t, st, env) ==
    IF OpCodeLoop(t.vout, 1, IsCoinBase(t), env) # 0
    THEN [ret |-> FALSE,
          state |-> DoS(st, 0, "REJECT_CHECKBLOCKATHEIGHT_NOT_FOUND",
                        "op-checkblockatheight-needed")]
    ELSE [ret |-> TRUE, state |-> st]

----------------------------------------------------------------------------
(* State machine: a builder fills a record, then one operation is applied  *)
(* to the finished (immutable) record with a fresh CValidationState.       *)

Limit == CASE mode = "amount" -> MaxItems
           [] mode = "input"  -> MaxItemsIn
           [] mode = "standard" -> MaxItemsIn
           [] mode = "agree"  -> MaxItemsIn
           [] OTHER           -> MaxItemsAll

\* (vpub_old, vpub_new) pairs of the amount runs: every pair with a zero side,
\* and the pairs where both sides are nonzero in each combination of
\* in-range, negative and too large
AmountPairs ==
    {p \in Amounts \X Amounts : p[1] = 0 \/ p[2] = 0}
    \cup {<<1, 1>>, <<-1, -1>>, <<INT_MAX, -1>>, <<-1, INT_MAX>>}

\* what the builder of each family of runs may put in the fields
VoutAmounts == CASE mode = "amount" -> Amounts
                 [] mode = "input"  -> {1}
                 [] mode = "standard" -> TxOutKinds
                 [] OTHER           -> {-1, 1, MAX_MONEY}
VpubPairs   == CASE mode = "amount" -> AmountPairs
                 [] mode = "agree"  -> {<<0, 0>>, <<0, 1>>, <<1, 0>>, <<0, -1>>,
                                        <<0, MAX_MONEY>>, <<0, INT_MAX>>}
                 [] mode = "input"  -> {<<0, 0>>}
                 [] OTHER           -> {<<0, 0>>, <<1, 1>>, <<0, INT_MAX>>}
NfPairs     == CASE mode = "amount" -> {<<1, 2>>}
                 [] mode = "input"  -> {1, 2, 3} \X {1, 2, 3}
                 [] OTHER           -> {<<1, 1>>, <<1, 2>>}
CcAmounts   == CASE mode = "amount" -> Amounts
                 [] OTHER           -> {1}
PrevoutSet  == CASE mode = "amount" -> {}
                 [] mode = "input"  -> {NullPrevout, 1, 2}
                 [] mode = "standard" -> {NullPrevout, 1}
                 [] OTHER           -> {NullPrevout, 1, 2}
ScriptSigSizes == CASE mode = "input" -> {1, MinCbScriptSig, MaxCbScriptSig, MaxCbScriptSig + 1}
                    [] mode = "standard" -> {MinCbScriptSig}
                    [] OTHER          -> {1, MinCbScriptSig}
VersionSet  == CASE mode = "amount" -> {}
                 [] mode = "input"  -> {0, 2, GROTH_TX_VERSION, SC_TX_VERSION}
                 [] OTHER           -> {0}

Building == call.op = "none" /\ Items(tx) < Limit

InitTx(m) ==
    /\ tx = EmptyTx
    /\ call = NoCall
    /\ mode = m
    /\ SetNull
    /\ dbLog = [calls |-> <<>>, exc |-> FALSE, loc |-> 0, before |-> EmptyStore,
                entries |-> {}]
    /\ dbCommitted = EmptyStore
    /\ chainTip = [nHeight |-> 0, blocks |-> 0]
    /\ tipLog = NoRun
    /\ cs_wallet = 0
    /\ pc = [t \in Threads |-> Idle]
    /\ fields = [fBroadcastTransactions |-> FALSE, mapRequestCount |-> 0]
    /\ accesses = {}

\* a validation state that already holds the rejection of an earlier check
UsedState == <<Reject("REJECT_INVALID", "bad-txns-oversize", 100)>>

SetVersion ==
    /\ call.op = "none" /\ tx = EmptyTx
    /\ \E v \in VersionSet : tx' = [tx EXCEPT !.nVersion = v]
    /\ UNCHANGED <<call, state, mode, walletVars, dbVars, witnessVars, lockVars>>

PushVin ==
    /\ Building
    /\ \E p \in PrevoutSet, sz \in ScriptSigSizes :
          tx' = [tx EXCEPT !.vin = Append(@, CTxIn(p, sz))]
    /\ UNCHANGED <<call, state, mode, walletVars, dbVars, witnessVars, lockVars>>

PushVout ==
    /\ Building
    /\ \E a \in VoutAmounts : tx' = [tx EXCEPT !.vout = Append(@, a)]
    /\ UNCHANGED <<call, state, mode, walletVars, dbVars, witnessVars, lockVars>>

PushJoinSplit ==
    /\ Building
    /\ \E v \in VpubPairs, nf \in NfPairs :
          tx' = [tx EXCEPT !.vjoinsplit = Append(@, JSDescription(v[1], v[2], nf))]
    /\ UNCHANGED <<call, state, mode, walletVars, dbVars, witnessVars, lockVars>>

\* CMutableTransaction::add(const CTxScCreationOut&)
AddScCreationOut ==
    /\ Building
    /\ \E a \in CcAmounts : tx' = [tx EXCEPT !.vsc_ccout = Append(@, a)]
    /\ UNCHANGED <<call, state, mode, walletVars, dbVars, witnessVars, lockVars>>

\* CMutableTransaction::add(const CTxCertifierLockOut&)
AddCertifierLockOut ==
    /\ Building
    /\ \E a \in CcAmounts : tx' = [tx EXCEPT !.vcl_ccout = Append(@, a)]
    /\ UNCHANGED <<call, state, mode, walletVars, dbVars, witnessVars, lockVars>>

\* CMutableTransaction::add(const CTxForwardTransferOut&)
AddForwardTransferOut ==
    /\ Building
    /\ \E a \in CcAmounts : tx' = [tx EXCEPT !.vft_ccout = Append(@, a)]
    /\ UNCHANGED <<call, state, mode, walletVars, dbVars, witnessVars, lockVars>>

\* a bool check applied to the record
Checked(name, r) ==
    /\ call' = [NoCall EXCEPT !.op = name, !.ret = r.ret, !.pre = state]
    /\ state' = r.state
    /\ UNCHANGED <<tx, mode, walletVars, dbVars, witnessVars, lockVars>>

\* a value getter applied to the record
Got(name, r) ==
    /\ call' = [NoCall EXCEPT !.op = name, !.thrown = r.thrown, !.val = r.val,
                              !.ovf = r.ovf]
    /\ UNCHANGED <<tx, state, mode, walletVars, dbVars, witnessVars, lockVars>>

CallCheckInputsAmount ==
    /\ call.op = "none"
    /\ \E ub \in UBValues :
         LET r == CheckInputsAmount(tx, state, ub) IN
         /\ call' = [NoCall EXCEPT !.op = "CheckInputsAmount", !.ret = r.ret,
                                   !.ovf = r.ovf, !.pre = state]
         /\ state' = r.state
    /\ UNCHANGED <<tx, mode, walletVars, dbVars, witnessVars, lockVars>>

CallCheckOutputsAmount ==
    /\ call.op = "none"
    /\ LET r == CheckOutputsAmount(tx, state) IN
       /\ call' = [NoCall EXCEPT !.op = "CheckOutputsAmount", !.ret = r.ret,
                                 !.ovf = r.ovf, !.pre = state]
       /\ state' = r.state
    /\ UNCHANGED <<tx, mode, walletVars, dbVars, witnessVars, lockVars>>

CallCheckInputsDuplication ==
    /\ call.op = "none"
    /\ Checked("CheckInputsDuplication", CheckInputsDuplication(tx, state))

CallCheckInputsInteraction ==
    /\ call.op = "none"
    /\ Checked("CheckInputsInteraction", CheckInputsInteraction(tx, state))

CallCheckInputsAvailability ==
    /\ call.op = "none"
    /\ Checked("CheckInputsAvailability", CheckInputsAvailability(tx, state))

CallCheckOutputsAvailability ==
    /\ call.op = "none"
    /\ Checked("CheckOutputsAvailability", CheckOutputsAvailability(tx, state))

CallCheckVersionBasic ==
    /\ call.op = "none"
    /\ Checked("CheckVersionBasic", CheckVersionBasic(tx, state))

CallBaseGetValueOut ==
    /\ call.op = "none"
    /\ \E ub \in UBValues :
         Got("CTransactionBase::GetValueOut", CTransactionBase_GetValueOut(tx, ub))

CallGetValueOut ==
    /\ call.op = "none"
    /\ \E ub \in UBValues : Got("GetValueOut", CTransaction_GetValueOut(tx, ub))

CallGetJoinSplitValueIn ==
    /\ call.op = "none"
    /\ \E ub \in UBValues : Got("GetJoinSplitValueIn", GetJoinSplitValueIn(tx, ub))

\* GetValueIn(view) on the record, with any view, in either build
CallGetValueIn ==
    /\ call.op = "none"
    /\ \E view \in Views, ub \in UBValues, BITCOIN_TX \in BOOLEAN :
          LET r == GetValueIn(tx, view, ub, BITCOIN_TX) IN
          call' = [NoCall EXCEPT !.op = "GetValueIn", !.thrown = r.thrown,
                                 !.val = r.val, !.ovf = r.ovf,
                                 !.arg = [view |-> view, BITCOIN_TX |-> BITCOIN_TX]]
    /\ UNCHANGED <<tx, state, mode, walletVars, dbVars, witnessVars, lockVars>>

\* one CheckAmountRange call on one crosschain output of the record, with an
\* accumulator that is in range
CallCheckAmountRange ==
    /\ call.op = "none"
    /\ \E i \in 1..Len(AllCcOut(tx)), cum \in 0..MAX_MONEY, ub \in UBValues :
         LET r == CheckAmountRange(AllCcOut(tx)[i], cum, ub) IN
         call' = [NoCall EXCEPT !.op = "CheckAmountRange", !.ret = r.ret,
                                !.val = r.cumulatedAmount, !.ovf = r.ovf,
                                !.arg = <<AllCcOut(tx)[i], cum>>]
    /\ UNCHANGED <<tx, state, mode, walletVars, dbVars, witnessVars, lockVars>>

\* CheckAmountRange over all crosschain outputs of the record, one accumulator
CallCheckCcAmounts ==
    /\ call.op = "none"
    /\ \E ub \in UBValues :
         LET r == CheckCcAmounts(AllCcOut(tx), 1, 0, ub) IN
         call' = [NoCall EXCEPT !.op = "CheckCcAmounts", !.ret = r.ret,
                                !.val = r.cumulatedAmount, !.ovf = r.ovf,
                                !.arg = <<r.n>>]
    /\ UNCHANGED <<tx, state, mode, walletVars, dbVars, witnessVars, lockVars>>

BuildAmount ==
    \/ PushVout \/ PushJoinSplit
    \/ AddScCreationOut \/ AddCertifierLockOut \/ AddForwardTransferOut

\* runs over the amount fields
Init == InitTx("amount") /\ state = FreshState
Next ==
    \/ BuildAmount
    \/ CallCheckInputsAmount \/ CallCheckOutputsAmount
    \/ CallBaseGetValueOut \/ CallGetValueOut \/ CallGetJoinSplitValueIn
    \/ CallCheckAmountRange \/ CallCheckCcAmounts
Spec == Init /\ [][Next]_vars

\* runs over the input fields
InitInput == InitTx("input") /\ state = FreshState
NextInput ==
    \/ SetVersion \/ PushVin \/ PushVout \/ PushJoinSplit \/ AddForwardTransferOut
    \/ CallCheckInputsDuplication \/ CallCheckInputsInteraction
    \/ CallCheckInputsAvailability \/ CallCheckOutputsAvailability
    \/ CallCheckVersionBasic
SpecInput == InitInput /\ [][NextInput]_vars

\* runs with every stateless check on records that can fail each of them
InitAll == InitTx("all") /\ state \in {FreshState, UsedState}
NextAll ==
    \/ SetVersion \/ PushVin \/ BuildAmount
    \/ CallCheckInputsAmount \/ CallCheckOutputsAmount
    \/ CallCheckInputsDuplication \/ CallCheckInputsInteraction
    \/ CallCheckInputsAvailability \/ CallCheckOutputsAvailability
    \/ CallCheckVersionBasic \/ CallGetValueIn
SpecAll == InitAll /\ [][NextAll]_vars

----------------------------------------------------------------------------
(* CWallet::SetBestChainINTERNAL(walletdb, loc)                            *)

Locators == {1, 2}                \* best-block locators handed to SetBestChain

\* the keys of mapWallet in the order the loop visits them (std::map order)
RECURSIVE SortedKeys(_)
SortedKeys(S) ==
    IF S = {} THEN <<>>
    ELSE LET m == CHOOSE x \in S : \A y \in S : x <= y IN <<m>> \o SortedKeys(S \ {m})

\* what the store call number k of one run returns: "ok" (true), "false",
\* or "throw" (a std::exception), the call that fails being chosen by fault
NoFault == [step |-> 0, kind |-> "ok"]
DbResult(fault, k) == IF fault.step = k THEN fault.kind ELSE "ok"
DbCall(fn, arg, res) == [fn |-> fn, arg |-> arg, res |-> res]

\* the for loop over mapWallet: WriteTx until one call does not succeed
RECURSIVE WriteTxLoop(_, _, _, _)
WriteTxLoop(keys, i, fault, log) ==
    IF i > Len(keys) THEN [log |-> log, res |-> "ok"]
    ELSE LET r == DbResult(fault, 1 + i)
             l == Append(log, DbCall("WriteTx", keys[i], r)) IN
         IF r # "ok" THEN [log |-> l, res |-> r]
         ELSE WriteTxLoop(keys, i + 1, fault, l)

\* a write returned false: the branch without its TxnAbort
OnWriteFailed_NoAbort(log) == log

\* a write returned false: walletdb.TxnAbort(); return;
OnWriteFailed(log) == Append(log, DbCall("TxnAbort", 0, "ok"))

\* catch (const std::exception&): walletdb.TxnAbort(); return;
OnException(log) == Append(log, DbCall("TxnAbort", 0, "ok"))

AfterWrite(res, log, rest) ==
    IF res = "false" THEN [log |-> OnWriteFailed(log), exc |-> FALSE]
    ELSE IF res = "throw" THEN [log |-> OnException(log), exc |-> FALSE]
    ELSE rest

SetBestChainINTERNAL(keys, loc, fault) ==
    LET n  == Len(keys)
        rb == DbResult(fault, 1)
        l1 == <<DbCall("TxnBegin", 0, rb)>>
    IN
    IF rb = "throw" THEN [log |-> l1, exc |-> TRUE]
    ELSE IF rb = "false" THEN [log |-> l1, exc |-> FALSE]
    ELSE
    LET w  == WriteTxLoop(keys, 1, fault, l1)
        rw == DbResult(fault, n + 2)
        l2 == Append(w.log, DbCall("WriteWitnessCacheSize", 0, rw))
        rl == DbResult(fault, n + 3)
        l3 == Append(l2, DbCall("WriteBestBlock", loc, rl))
        rc == DbResult(fault, n + 4)
        l4 == Append(l3, DbCall("TxnCommit", 0, rc))
    IN
    AfterWrite(w.res, w.log,
      AfterWrite(rw, l2,
        AfterWrite(rl, l3,
          [log |-> l4, exc |-> rc = "throw"])))

\* what the store holds after the calls of log: the writes of a transaction
\* land when, and only when, its TxnCommit succeeds
StoreAfter(store, log) ==
    IF \E i \in 1..Len(log) : log[i].fn = "TxnCommit" /\ log[i].res = "ok"
    THEN [txs  |-> store.txs \cup {log[i].arg : i \in {j \in 1..Len(log) :
                                        log[j].fn = "WriteTx" /\ log[j].res = "ok"}},
          wcs  |-> store.wcs \/ \E i \in 1..Len(log) :
                                  log[i].fn = "WriteWitnessCacheSize" /\ log[i].res = "ok",
          best |-> IF \E i \in 1..Len(log) : log[i].fn = "WriteBestBlock" /\ log[i].res = "ok"
                   THEN (CHOOSE b \in Locators : \E i \in 1..Len(log) :
                            log[i].fn = "WriteBestBlock" /\ log[i].arg = b)
                   ELSE store.best]
    ELSE store

\* CWallet::SetBestChain(loc)
SetBestChain ==
    \E loc \in Locators, step \in 0..(Cardinality(DOMAIN mapWallet) + 4),
       kind \in {"false", "throw"} :
        LET fault == IF step = 0 THEN NoFault ELSE [step |-> step, kind |-> kind]
            r == SetBestChainINTERNAL(SortedKeys(DOMAIN mapWallet), loc, fault) IN
        /\ dbLog' = [calls |-> r.log, exc |-> r.exc, loc |-> loc, before |-> dbCommitted,
                     entries |-> DOMAIN mapWallet]
        /\ dbCommitted' = StoreAfter(dbCommitted, r.log)
        /\ UNCHANGED <<txVars, walletVars, witnessVars, lockVars>>

\* runs of the wallet ledger
InitLedger == InitTx("ledger") /\ state = FreshState
NextLedger == SyncTransaction
SpecLedger == InitLedger /\ [][NextLedger]_vars

\* runs of SetBestChain over a ledger that grows
----------------------------------------------------------------------------
(* Note witness cache: CWallet::ChainTip -> IncrementNoteWitnesses /       *)
(* DecrementNoteWitnesses                                                  *)

WITNESS_CACHE_SIZE == 2           \* retention depth of a witness history
MaxBlocks == 4                    \* blocks the chain may connect in one run of the model

\* the front gains the witness of the new block; one entry is evicted from
\* the back when the history exceeds the retention depth
AppendWitness(nd, w, nHeight) ==
    LET ws == <<w>> \o nd.witnesses IN
    [witnesses |-> IF Len(ws) > WITNESS_CACHE_SIZE
                   THEN SubSeq(ws, 1, WITNESS_CACHE_SIZE) ELSE ws,
     witnessHeight |-> nHeight]

\* IncrementNoteWitnesses leaving the height of a note without witness
IncrementNote_HeightWithWitness(nd, w, nHeight, first) ==
    IF nd.witnesses = <<>> /\ ~first
    THEN [witnesses |-> nd.witnesses, witnessHeight |-> nd.witnessHeight]
    ELSE AppendWitness(nd, w, nHeight)

\* one note in IncrementNoteWitnesses: a note with a history gains a
\* witness; a note without one gains its first witness when the block holds
\* its commitment, and otherwise only the height its (empty) cache is valid
\* for
IncrementNote(nd, w, nHeight, first) ==
    IF nd.witnesses = <<>> /\ ~first
    THEN [witnesses |-> nd.witnesses, witnessHeight |-> nHeight]
    ELSE AppendWitness(nd, w, nHeight)

\* the disconnection leaving the history as it is
PopWitness_Keep(nd, nHeight) ==
    [witnesses |-> nd.witnesses, witnessHeight |-> nHeight - 1]

\* the most recent witness is popped from the front
PopWitness(nd, nHeight) ==
    [witnesses |-> Tail(nd.witnesses), witnessHeight |-> nHeight - 1]

\* the note data of every ledger entry
AllNoteData == [h \in DOMAIN mapWallet |-> mapWallet[h].mapNoteData]

\* a note whose history is empty: popping it is a consistency violation
EmptyHistory ==
    \E h \in DOMAIN mapWallet : \E n \in DOMAIN mapWallet[h].mapNoteData :
        mapWallet[h].mapNoteData[n].witnesses = <<>>

\* what the runs remember of the last ChainTip callback that returned: the
\* ledger entries it found
TipCall(added) ==
    [NoCall EXCEPT !.op = "ChainTip", !.arg = [added |-> added, present |-> DOMAIN mapWallet]]

\* CWallet::ChainTip(pindex, pblock, tree, added = true)
\*   -> IncrementNoteWitnesses(pindex, pblock, tree)
IncrementNoteWitnesses ==
    /\ ~tipLog.fatal /\ chainTip.blocks < MaxBlocks
    /\ \E restart \in BOOLEAN :
          /\ (tipLog.ups = 0 \/ tipLog.downs > 0) => restart
          /\ tipLog' = IF restart
                        THEN [base |-> AllNoteData, ups |-> 1, downs |-> 0, fatal |-> FALSE]
                        ELSE [tipLog EXCEPT !.ups = @ + 1]
    /\ chainTip' = [nHeight |-> chainTip.nHeight + 1, blocks |-> chainTip.blocks + 1]
    /\ call' = TipCall(TRUE)
    /\ \E first \in BOOLEAN :
          mapWallet' =
            [h \in DOMAIN mapWallet |->
                [mapWallet[h] EXCEPT !.mapNoteData =
                    [n \in DOMAIN @ |->
                        IncrementNote(@[n], chainTip.blocks + 1, chainTip.nHeight + 1, first)]]]
    /\ UNCHANGED <<tx, state, mode, mapTxSpends, mapTxNullifiers, nOrderPosNext, mapNullifiersToNotes, dbVars, lockVars>>

\* CWallet::ChainTip(pindex, pblock, tree, added = false)
\*   -> DecrementNoteWitnesses(pindex)
DecrementNoteWitnesses ==
    /\ ~tipLog.fatal /\ chainTip.nHeight > 0
    /\ IF EmptyHistory
       THEN \* the consistency violation: the process does not continue
            /\ tipLog' = [tipLog EXCEPT !.fatal = TRUE]
            /\ UNCHANGED <<chainTip, mapWallet, call>>
       ELSE /\ tipLog' = IF tipLog.ups > tipLog.downs
                         THEN [tipLog EXCEPT !.downs = @ + 1] ELSE NoRun
            /\ chainTip' = [chainTip EXCEPT !.nHeight = @ - 1]
            /\ call' = TipCall(FALSE)
            /\ mapWallet' =
                  [h \in DOMAIN mapWallet |->
                      [mapWallet[h] EXCEPT !.mapNoteData =
                          [n \in DOMAIN @ |-> PopWitness(@[n], chainTip.nHeight)]]]
    /\ UNCHANGED <<tx, state, mode, mapTxSpends, mapTxNullifiers, nOrderPosNext, mapNullifiersToNotes, dbVars, lockVars>>

\* runs of the ledger with notes and chain-tip notifications
InitWitness == InitTx("witness") /\ state = FreshState
NextWitness == SyncTransaction \/ IncrementNoteWitnesses \/ DecrementNoteWitnesses
SpecWitness == InitWitness /\ [][NextWitness]_vars

----------------------------------------------------------------------------
(* cs_wallet and the inline public operations of CWallet                   *)

MaxRequestCount == 2              \* requests counted for the one hash of the runs

\* operations whose body is LOCK(cs_wallet) { ... }
LockingOps == {"Inventory", "GetVersion"}
\* operations that start with AssertLockHeld(cs_wallet): the caller holds the lock
CallerLockedOps == {"GetKeyPoolSize", "CanSupportFeature"}
\* operations whose body reads or writes the field and nothing else
BareOps == {"GetBroadcastTransactions", "SetBroadcastTransactions"}

\* the CWallet field each operation touches
FieldOf(op) ==
    CASE op = "Inventory" -> "mapRequestCount"
      [] op = "GetVersion" -> "nWalletVersion"
      [] op = "GetKeyPoolSize" -> "setKeyPool"
      [] op = "CanSupportFeature" -> "nWalletMaxVersion"
      [] OTHER -> "fBroadcastTransactions"

\* an access of the running operation of thread t, with the lock state
Access(t) == [field |-> FieldOf(pc[t].op), held |-> cs_wallet = t]

\* a thread enters a public operation
BeginOp ==
    \E t \in Threads, op \in LockingOps \cup CallerLockedOps \cup BareOps :
        /\ pc[t] = Idle
        /\ pc' = [pc EXCEPT ![t] = [op |-> op, at |-> "start"]]
        /\ UNCHANGED <<cs_wallet, fields, accesses, txVars, walletVars, dbVars, witnessVars>>

\* LOCK(cs_wallet), in the operation or in its caller: waits while another
\* thread holds the lock
Lock ==
    \E t \in Threads :
        /\ pc[t].at = "start" /\ pc[t].op \in LockingOps \cup CallerLockedOps
        /\ cs_wallet = 0
        /\ cs_wallet' = t
        /\ pc' = [pc EXCEPT ![t].at = "locked"]
        /\ UNCHANGED <<fields, accesses, txVars, walletVars, dbVars, witnessVars>>

\* the body of an operation that runs under the lock
LockedBody ==
    \E t \in Threads :
        /\ pc[t].at = "locked"
        /\ accesses' = accesses \cup {Access(t)}
        /\ fields' = IF pc[t].op = "Inventory" /\ fields.mapRequestCount < MaxRequestCount
                      THEN [fields EXCEPT !.mapRequestCount = @ + 1] ELSE fields
        /\ pc' = [pc EXCEPT ![t].at = "done"]
        /\ UNCHANGED <<cs_wallet, txVars, walletVars, dbVars, witnessVars>>

\* the end of the scope of LOCK(cs_wallet)
Unlock ==
    \E t \in Threads :
        /\ pc[t].at = "done"
        /\ cs_wallet' = 0
        /\ pc' = [pc EXCEPT ![t] = Idle]
        /\ UNCHANGED <<fields, accesses, txVars, walletVars, dbVars, witnessVars>>

\* bool GetBroadcastTransactions() const { return fBroadcastTransactions; }
GetBroadcastTransactions ==
    \E t \in Threads :
        /\ pc[t] = [op |-> "GetBroadcastTransactions", at |-> "start"]
        /\ accesses' = accesses \cup {Access(t)}
        /\ pc' = [pc EXCEPT ![t] = Idle]
        /\ UNCHANGED <<cs_wallet, fields, txVars, walletVars, dbVars, witnessVars>>

\* void SetBroadcastTransactions(bool broadcast) { fBroadcastTransactions = broadcast; }
SetBroadcastTransactions ==
    \E t \in Threads, broadcast \in BOOLEAN :
        /\ pc[t] = [op |-> "SetBroadcastTransactions", at |-> "start"]
        /\ accesses' = accesses \cup {Access(t)}
        /\ fields' = [fields EXCEPT !.fBroadcastTransactions = broadcast]
        /\ pc' = [pc EXCEPT ![t] = Idle]
        /\ UNCHANGED <<cs_wallet, txVars, walletVars, dbVars, witnessVars>>

\* runs of threads calling the inline public operations
InitThreads == InitTx("threads") /\ state = FreshState
NextThreads ==
    \/ BeginOp \/ Lock \/ LockedBody \/ Unlock
    \/ GetBroadcastTransactions \/ SetBroadcastTransactions
SpecThreads == InitThreads /\ [][NextThreads]_vars

----------------------------------------------------------------------------
(* CTransaction: construction from a builder, UpdateHash, copies            *)

\* uint256(): the hash of an object that never computed one
NullHash == <<>>

\* CMutableTransaction: the fields of tx and the three the checks do not read
CMutableTransaction(t, nLockTime, joinSplitPubKey, joinSplitSig) ==
    [nVersion |-> t.nVersion, vin |-> t.vin, vout |-> t.vout,
     vsc_ccout |-> t.vsc_ccout, vcl_ccout |-> t.vcl_ccout, vft_ccout |-> t.vft_ccout,
     nLockTime |-> nLockTime, vjoinsplit |-> t.vjoinsplit,
     joinSplitPubKey |-> joinSplitPubKey, joinSplitSig |-> joinSplitSig]

\* SerializeHash(*this): the serialization of the fields, in field order,
\* under a hash without collisions; the cached hash is not serialized
SerializeHash(t) ==
    <<t.nVersion, t.vin, t.vout, t.vsc_ccout, t.vcl_ccout, t.vft_ccout, t.nLockTime,
      t.vjoinsplit, t.joinSplitPubKey, t.joinSplitSig>>

\* a CTransaction with the fields of f and the cached hash h
WithHash(f, h) ==
    [hash |-> h, nVersion |-> f.nVersion, vin |-> f.vin, vout |-> f.vout,
     vsc_ccout |-> f.vsc_ccout, vcl_ccout |-> f.vcl_ccout, vft_ccout |-> f.vft_ccout,
     nLockTime |-> f.nLockTime, vjoinsplit |-> f.vjoinsplit,
     joinSplitPubKey |-> f.joinSplitPubKey, joinSplitSig |-> f.joinSplitSig]

\* CTransaction::CTransaction()
DefaultCTransaction == WithHash(CMutableTransaction(EmptyTx, 0, 0, 0), NullHash)

\* void CTransaction::UpdateHash() const
UpdateHash(t) == [t EXCEPT !.hash = SerializeHash(t)]

\* CTransaction::CTransaction(const CMutableTransaction &tx)
CTransaction_FromMutable(b) == UpdateHash(WithHash(b, NullHash))

\* CMutableTransaction::CMutableTransaction(const CTransaction& tx)
CMutableTransaction_FromTx(t) ==
    CMutableTransaction(t, t.nLockTime, t.joinSplitPubKey, t.joinSplitSig)

\* CTransaction::CTransaction(const CTransaction &tx)
CTransaction_Copy(t) == WithHash(t, t.hash)

\* CTransactionBase::operator=(tx): hash, nVersion, vout
CTransactionBase_Assign(dst, t) ==
    [dst EXCEPT !.hash = t.hash, !.nVersion = t.nVersion, !.vout = t.vout]

\* operator= without the call of the base class operator
CTransaction_Assign_NoBase(dst, t) ==
    [dst EXCEPT !.vin = t.vin,
                !.vsc_ccout = t.vsc_ccout, !.vcl_ccout = t.vcl_ccout,
                !.vft_ccout = t.vft_ccout, !.nLockTime = t.nLockTime,
                !.vjoinsplit = t.vjoinsplit, !.joinSplitPubKey = t.joinSplitPubKey,
                !.joinSplitSig = t.joinSplitSig]

\* CTransaction& CTransaction::operator=(const CTransaction &tx)
CTransaction_Assign(dst, t) ==
    [CTransactionBase_Assign(dst, t) EXCEPT !.vin = t.vin,
                !.vsc_ccout = t.vsc_ccout, !.vcl_ccout = t.vcl_ccout,
                !.vft_ccout = t.vft_ccout, !.nLockTime = t.nLockTime,
                !.vjoinsplit = t.vjoinsplit, !.joinSplitPubKey = t.joinSplitPubKey,
                !.joinSplitSig = t.joinSplitSig]

\* nLockTime, joinSplitPubKey, joinSplitSig of the builders of the hash runs
BuilderExtras == {<<0, 0, 0>>, <<1, 0, 0>>, <<0, 1, 0>>, <<0, 0, 1>>}

\* a second builder: the same fields, or one field changed
OtherBuilders(b) ==
    {b,
     [b EXCEPT !.nLockTime = 1 - @],
     [b EXCEPT !.joinSplitSig = 1 - @],
     [b EXCEPT !.nVersion = IF @ = TRANSPARENT_TX_VERSION THEN GROTH_TX_VERSION
                            ELSE TRANSPARENT_TX_VERSION],
     [b EXCEPT !.vout = Append(@, 1)],
     [b EXCEPT !.vin = IF @ = <<>> THEN <<CTxIn(1, MinCbScriptSig)>> ELSE Tail(@)]}

RecordOps == {"CTransaction", "UpdateHash", "copy", "operator=", "round trip"}

\* CTransaction(const CMutableTransaction&) on the finished builder, and on
\* a second builder
Construct ==
    /\ call.op = "none"
    /\ \E x \in BuilderExtras :
         LET b == CMutableTransaction(tx, x[1], x[2], x[3]) IN
         \E b2 \in OtherBuilders(b) :
             call' = [NoCall EXCEPT !.op = "CTransaction",
                                    !.val = CTransaction_FromMutable(b),
                                    !.arg = [builder |-> b, otherBuilder |-> b2,
                                             other |-> CTransaction_FromMutable(b2)]]
    /\ UNCHANGED <<tx, state, mode, walletVars, dbVars, witnessVars, lockVars>>

\* an operation applied to the constructed record: the record the variable
\* call.val holds afterwards is its result
Rehash ==
    /\ call.op \in RecordOps
    /\ call' = [call EXCEPT !.op = "UpdateHash", !.val = UpdateHash(call.val)]
    /\ UNCHANGED <<tx, state, mode, walletVars, dbVars, witnessVars, lockVars>>

CopyConstruct ==
    /\ call.op \in RecordOps
    /\ call' = [call EXCEPT !.op = "copy", !.val = CTransaction_Copy(call.val)]
    /\ UNCHANGED <<tx, state, mode, walletVars, dbVars, witnessVars, lockVars>>

CopyAssign ==
    /\ call.op \in RecordOps
    /\ \E dst \in {DefaultCTransaction, call.arg.other} :
          call' = [call EXCEPT !.op = "operator=", !.val = CTransaction_Assign(dst, call.val)]
    /\ UNCHANGED <<tx, state, mode, walletVars, dbVars, witnessVars, lockVars>>

RoundTrip ==
    /\ call.op \in RecordOps
    /\ call' = [call EXCEPT !.op = "round trip",
                            !.val = CTransaction_FromMutable(CMutableTransaction_FromTx(call.val))]
    /\ UNCHANGED <<tx, state, mode, walletVars, dbVars, witnessVars, lockVars>>

\* runs that build a record and hash, copy and assign it
InitHash == InitTx("hash") /\ state = FreshState
NextHash ==
    \/ SetVersion \/ PushVin \/ BuildAmount
    \/ Construct \/ Rehash \/ CopyConstruct \/ CopyAssign \/ RoundTrip
SpecHash == InitHash /\ [][NextHash]_vars

----------------------------------------------------------------------------
(* JSDescription::Randomized                                                *)

ZC_NUM_JS_INPUTS == 2
ZC_NUM_JS_OUTPUTS == 2

\* the notes the inputs and outputs of a joinsplit are drawn from
MaxNote == 3
JSNotes == 1..MaxNote

\* inputMap = {0, 1}; outputMap = {0, 1};
IdentityMap(len) == [i \in 0..(len - 1) |-> i]

\* std::swap(a[i], a[r])
Swap(a, i, r) == [a EXCEPT ![i] = a[r], ![r] = a[i]]

\* MappedShuffle(first, mapFirst, len, gen), from position i downwards: a
\* draw r of gen(i + 1), then first[i] <-> first[r] and mapFirst[i] <->
\* mapFirst[r]; draws is what gen returns, call after call
RECURSIVE ShuffleLoop(_, _, _, _)
ShuffleLoop(first, mapFirst, i, draws) ==
    IF i = 0 THEN [first |-> first, mapFirst |-> mapFirst, draws |-> draws]
    ELSE LET r == Head(draws) IN
         ShuffleLoop(Swap(first, i, r), Swap(mapFirst, i, r), i - 1, Tail(draws))

MappedShuffle(first, mapFirst, len, draws) == ShuffleLoop(first, mapFirst, len - 1, draws)

\* Randomized with the two shuffles in the other order
Randomized_OutputsFirst(inputs, outputs, draws) ==
    LET o == MappedShuffle(outputs, IdentityMap(ZC_NUM_JS_OUTPUTS), ZC_NUM_JS_OUTPUTS, draws)
        i == MappedShuffle(inputs, IdentityMap(ZC_NUM_JS_INPUTS), ZC_NUM_JS_INPUTS, o.draws)
    IN  [inputs |-> i.first, inputMap |-> i.mapFirst,
         outputs |-> o.first, outputMap |-> o.mapFirst]

\* JSDescription::Randomized: the arrays and maps it leaves to the caller
Randomized(inputs, outputs, draws) ==
    LET i == MappedShuffle(inputs, IdentityMap(ZC_NUM_JS_INPUTS), ZC_NUM_JS_INPUTS, draws)
        o == MappedShuffle(outputs, IdentityMap(ZC_NUM_JS_OUTPUTS), ZC_NUM_JS_OUTPUTS, i.draws)
    IN  [inputs |-> i.first, inputMap |-> i.mapFirst,
         outputs |-> o.first, outputMap |-> o.mapFirst]

\* what a generator with in-range results returns over the calls of one
\* Randomized: gen(2) for the inputs, then gen(2) for the outputs
GenDraws == [1..2 -> 0..1]

CallRandomized ==
    /\ call.op = "none"
    /\ \E inputs \in [0..(ZC_NUM_JS_INPUTS - 1) -> JSNotes],
          outputs \in [0..(ZC_NUM_JS_OUTPUTS - 1) -> JSNotes],
          draws \in GenDraws :
          call' = [NoCall EXCEPT !.op = "Randomized",
                                 !.arg = [inputs |-> inputs, outputs |-> outputs, draws |-> draws],
                                 !.val = Randomized(inputs, outputs, draws)]
    /\ UNCHANGED <<tx, state, mode, walletVars, dbVars, witnessVars, lockVars>>

\* runs that shuffle one joinsplit
InitShuffle == InitTx("shuffle") /\ state = FreshState
NextShuffle == CallRandomized
SpecShuffle == InitShuffle /\ [][NextShuffle]_vars

----------------------------------------------------------------------------
(* JSDescription: getNewInstance and Verify                                 *)

\* the two alternatives of the proof variant
PHGRProof == "PHGRProof"
GrothProof == "GrothProof"

\* JSDescription(): a joinsplit with its fields at their defaults
DefaultJSDescription ==
    [proof |-> PHGRProof, randomSeed |-> 0, anchor |-> 0, macs |-> <<0, 0>>,
     nullifiers |-> <<0, 0>>, commitments |-> <<0, 0>>, vpub_old |-> 0, vpub_new |-> 0]

\* JSDescription::getNewInstance(useGroth)
getNewInstance(useGroth) ==
    IF useGroth THEN [DefaultJSDescription EXCEPT !.proof = GrothProof]
    ELSE [DefaultJSDescription EXCEPT !.proof = PHGRProof]

\* params.h_sig(randomSeed, nullifiers, joinSplitPubKey): an opaque value of
\* its three arguments
h_sig(randomSeed, nullifiers, joinSplitPubKey) == <<randomSeed, nullifiers, joinSplitPubKey>>

\* the verdicts the two external verifiers give when asked
Oracles == [phgr : BOOLEAN, groth : BOOLEAN]

\* SproutProofVerifier::operator()(const libzcash::PHGRProof&): the result
\* and the external calls made
VisitPHGR(jsdesc, joinSplitPubKey, oracle) ==
    [ret |-> oracle.phgr,
     calls |-> << [fn |-> "params.verify",
                   args |-> <<jsdesc.proof, joinSplitPubKey, jsdesc.randomSeed, jsdesc.macs,
                              jsdesc.nullifiers, jsdesc.commitments, jsdesc.vpub_old,
                              jsdesc.vpub_new, jsdesc.anchor>>] >>]

\* SproutProofVerifier::operator()(const libzcash::GrothProof&)
VisitGroth(jsdesc, joinSplitPubKey, oracle) ==
    LET h == h_sig(jsdesc.randomSeed, jsdesc.nullifiers, joinSplitPubKey) IN
    [ret |-> oracle.groth,
     calls |-> << [fn |-> "librustzcash_sprout_verify",
                   args |-> <<jsdesc.proof, jsdesc.anchor, h, jsdesc.macs[1], jsdesc.macs[2],
                              jsdesc.nullifiers[1], jsdesc.nullifiers[2],
                              jsdesc.commitments[1], jsdesc.commitments[2],
                              jsdesc.vpub_old, jsdesc.vpub_new>>] >>]

\* Verify sending every proof to the scheme-A verifier
Verify_AlwaysPHGR(jsdesc, joinSplitPubKey, oracle) ==
    VisitPHGR(jsdesc, joinSplitPubKey, oracle)

\* JSDescription::Verify: boost::apply_visitor(pv, proof)
Verify(jsdesc, joinSplitPubKey, oracle) ==
    IF jsdesc.proof = PHGRProof THEN VisitPHGR(jsdesc, joinSplitPubKey, oracle)
    ELSE VisitGroth(jsdesc, joinSplitPubKey, oracle)

CallGetNewInstance ==
    /\ call.op = "none"
    /\ \E useGroth \in BOOLEAN :
          call' = [NoCall EXCEPT !.op = "getNewInstance", !.arg = useGroth,
                                 !.val = getNewInstance(useGroth)]
    /\ UNCHANGED <<tx, state, mode, walletVars, dbVars, witnessVars, lockVars>>

\* the public fields of the joinsplit are filled in (they are plain members)
FillJoinSplit ==
    /\ call.op = "getNewInstance"
    /\ \E randomSeed \in {0, 1}, anchor \in {0, 1}, nf \in {<<0, 0>>, <<1, 2>>},
          old \in {0, 1}, mac \in {<<0, 0>>, <<1, 2>>} :
          call' = [call EXCEPT !.op = "fill",
                               !.val = [@ EXCEPT !.randomSeed = randomSeed, !.anchor = anchor,
                                                 !.nullifiers = nf, !.vpub_old = old,
                                                 !.macs = mac]]
    /\ UNCHANGED <<tx, state, mode, walletVars, dbVars, witnessVars, lockVars>>

\* Verify on the joinsplit at hand: arg keeps what it was called with, val
\* the joinsplit afterwards, pre the external calls made
CallVerify ==
    /\ call.op \in {"getNewInstance", "fill"}
    /\ \E joinSplitPubKey \in {0, 1}, oracle \in Oracles :
          LET r == Verify(call.val, joinSplitPubKey, oracle) IN
          call' = [call EXCEPT !.op = "Verify", !.ret = r.ret, !.pre = r.calls,
                               !.arg = [jsdesc |-> call.val, joinSplitPubKey |-> joinSplitPubKey,
                                        oracle |-> oracle]]
    /\ UNCHANGED <<tx, state, mode, walletVars, dbVars, witnessVars, lockVars>>

\* runs that make a joinsplit and verify it
InitVerify == InitTx("verify") /\ state = FreshState
NextVerify == CallGetNewInstance \/ FillJoinSplit \/ CallVerify
SpecVerify == InitVerify /\ [][NextVerify]_vars

----------------------------------------------------------------------------
(* CWallet::SelectCoinsMinConf                                              *)

MaxCoins == 3                     \* candidate outputs offered to a selection

\* COutput: an output of a ledger entry with its value, its depth, whether
\* the wallet can spend it and whether its record came from the wallet
COutput(nValue, nDepth, fSpendable, fromMe) ==
    [nValue |-> nValue, nDepth |-> nDepth, fSpendable |-> fSpendable, fromMe |-> fromMe]

\* the candidates the selection runs draw from
CoinKinds ==
    {COutput(1, 1, TRUE, TRUE), COutput(2, 1, TRUE, TRUE), COutput(2, 0, TRUE, TRUE),
     COutput(1, 0, TRUE, FALSE), COutput(2, 1, TRUE, FALSE), COutput(2, 1, FALSE, TRUE)}

CoinLists == UNION {[1..n -> CoinKinds] : n \in 0..MaxCoins}

\* the candidates that are spendable and deep enough: nConfMine for the
\* wallet's own records, nConfTheirs for the others
EligibleCoins(vCoins, nConfMine, nConfTheirs) ==
    {i \in DOMAIN vCoins :
        /\ vCoins[i].fSpendable
        /\ vCoins[i].nDepth >= (IF vCoins[i].fromMe THEN nConfMine ELSE nConfTheirs)}

RECURSIVE CoinTotal(_, _)
CoinTotal(vCoins, S) ==
    IF S = {} THEN 0
    ELSE LET i == CHOOSE x \in S : TRUE IN vCoins[i].nValue + CoinTotal(vCoins, S \ {i})

\* the greedy fallback: the candidates by descending amount until the
\* target is reached
RECURSIVE GreedySelect(_, _, _, _)
GreedySelect(vCoins, rest, picked, nTargetValue) ==
    IF CoinTotal(vCoins, picked) >= nTargetValue \/ rest = {} THEN picked
    ELSE LET i == CHOOSE x \in rest :
                     \A y \in rest : \/ vCoins[x].nValue > vCoins[y].nValue
                                     \/ (vCoins[x].nValue = vCoins[y].nValue /\ x <= y) IN
         GreedySelect(vCoins, rest \ {i}, picked \cup {i}, nTargetValue)

\* what the randomized subset search may come back with: a subset of the
\* eligible candidates that reaches the target, or nothing ({}) when the
\* attempt budget ran out
SubsetSearchResults(vCoins, eligible, nTargetValue) ==
    {S \in SUBSET eligible : S = {} \/ CoinTotal(vCoins, S) >= nTargetValue}

\* SelectCoinsMinConf falling back on every candidate, eligible or not
SelectCoinsMinConf_AnyCoin(nTargetValue, nConfMine, nConfTheirs, vCoins, found) ==
    LET eligible == EligibleCoins(vCoins, nConfMine, nConfTheirs) IN
    IF CoinTotal(vCoins, eligible) < nTargetValue
    THEN [ret |-> FALSE, setCoinsRet |-> {}, nValueRet |-> 0]
    ELSE LET chosen == IF found # {} THEN found
                       ELSE GreedySelect(vCoins, DOMAIN vCoins, {}, nTargetValue) IN
         [ret |-> TRUE, setCoinsRet |-> chosen, nValueRet |-> CoinTotal(vCoins, chosen)]

\* SelectCoinsMinConf(nTargetValue, nConfMine, nConfTheirs, vCoins,
\* setCoinsRet, nValueRet), found being the outcome of the subset search
SelectCoinsMinConf(nTargetValue, nConfMine, nConfTheirs, vCoins, found) ==
    LET eligible == EligibleCoins(vCoins, nConfMine, nConfTheirs) IN
    IF CoinTotal(vCoins, eligible) < nTargetValue
    THEN [ret |-> FALSE, setCoinsRet |-> {}, nValueRet |-> 0]
    ELSE LET chosen == IF found # {} THEN found
                       ELSE GreedySelect(vCoins, eligible, {}, nTargetValue) IN
         [ret |-> TRUE, setCoinsRet |-> chosen, nValueRet |-> CoinTotal(vCoins, chosen)]

CallSelectCoinsMinConf ==
    /\ call.op = "none"
    /\ \E vCoins \in CoinLists, nTargetValue \in 1..MaxCoins, nConfMine \in {0, 1} :
         LET nConfTheirs == 1 IN
         \E found \in SubsetSearchResults(vCoins, EligibleCoins(vCoins, nConfMine, nConfTheirs),
                                          nTargetValue) :
            call' = [NoCall EXCEPT
                       !.op = "SelectCoinsMinConf",
                       !.arg = [vCoins |-> vCoins, nTargetValue |-> nTargetValue,
                                nConfMine |-> nConfMine, nConfTheirs |-> nConfTheirs,
                                found |-> found],
                       !.val = SelectCoinsMinConf(nTargetValue, nConfMine, nConfTheirs,
                                                  vCoins, found)]
    /\ UNCHANGED <<tx, state, mode, walletVars, dbVars, witnessVars, lockVars>>

\* runs that select coins once
InitSelect == InitTx("select") /\ state = FreshState
NextSelect == CallSelectCoinsMinConf
SpecSelect == InitSelect /\ [][NextSelect]_vars

----------------------------------------------------------------------------
(* runs of the standardness checks                                          *)

CallCheckOutputsAreStandard ==
    /\ call.op = "none"
    /\ \E env \in StdEnvs, BITCOIN_TX \in BOOLEAN :
          LET r == CheckOutputsAreStandard(tx, ChainHeight, env, BITCOIN_TX) IN
          call' = [NoCall EXCEPT !.op = "CheckOutputsAreStandard", !.ret = r.ret,
                                 !.val = r.reason,
                                 !.arg = [env |-> env, BITCOIN_TX |-> BITCOIN_TX]]
    /\ UNCHANGED <<tx, state, mode, walletVars, dbVars, witnessVars, lockVars>>

CallCheckOutputsCheckBlockAtHeightOpCode ==
    /\ call.op = "none"
    /\ \E env \in StdEnvs :
          LET r == CheckOutputsCheckBlockAtHeightOpCode(tx, state, env) IN
          /\ call' = [NoCall EXCEPT !.op = "CheckOutputsCheckBlockAtHeightOpCode",
                                    !.ret = r.ret, !.pre = state, !.arg = [env |-> env]]
          /\ state' = r.state
    /\ UNCHANGED <<tx, mode, walletVars, dbVars, witnessVars, lockVars>>

InitStandard == InitTx("standard") /\ state = FreshState
NextStandard ==
    \/ PushVin \/ PushVout
    \/ CallCheckOutputsAreStandard \/ CallCheckOutputsCheckBlockAtHeightOpCode
SpecStandard == InitStandard /\ [][NextStandard]_vars

\* runs of the ledger in which entries cache amounts and are bound again
InitBind == InitTx("bind") /\ state = FreshState
NextBind == SyncTransaction \/ GetDebit \/ GetImmatureCredit \/ BindWallet
SpecBind == InitBind /\ [][NextBind]_vars

----------------------------------------------------------------------------
(* the amount validators and the value getters on the same record          *)

\* the part of CTransaction::GetValueOut() before the crosschain sums: the
\* loop over vout, then the loop over the vpub_old of the joinsplits
ValueOutBeforeCc(t, ub) ==
    LET base == CTransactionBase_GetValueOut(t, ub) IN
    IF base.thrown THEN base
    ELSE AccumulateLoop(VpubOld(t), 1, base.val, base.ovf, ub)

\* CheckInputsAmount, GetJoinSplitValueIn, CheckOutputsAmount and
\* GetValueOut applied one after the other to the record
CallValidatorsAndGetters ==
    /\ call.op = "none"
    /\ \E ub1 \in UBValues, ub2 \in UBValues :
          LET ci == CheckInputsAmount(tx, state, ub1)
              vi == GetJoinSplitValueIn(tx, ub2)
              co == CheckOutputsAmount(tx, ci.state)
              vo == CTransaction_GetValueOut(tx, ub2) IN
          /\ call' = [NoCall EXCEPT
                        !.op = "validators and getters", !.pre = state,
                        !.arg = [CheckInputsAmount |-> ci.ret,
                                 GetJoinSplitValueIn |-> [thrown |-> vi.thrown, val |-> vi.val],
                                 CheckOutputsAmount |-> [ret |-> co.ret, acc |-> co.acc],
                                 ValueOutBeforeCc |-> ValueOutBeforeCc(tx, ub2),
                                 GetValueOut |-> [thrown |-> vo.thrown, val |-> vo.val]]]
          /\ state' = co.state
    /\ UNCHANGED <<tx, mode, walletVars, dbVars, witnessVars, lockVars>>

InitAgree == InitTx("agree") /\ state = FreshState
NextAgree == PushVout \/ PushJoinSplit \/ AddForwardTransferOut \/ CallValidatorsAndGetters
SpecAgree == InitAgree /\ [][NextAgree]_vars

----------------------------------------------------------------------------
(* CBackwardTransferOut and CTxOut: the two converting constructors        *)

\* sizeof(uint160), scaled from 20 bytes
Uint160Size == 3

\* the script opcodes the conversion writes, by their byte values
OP_DUP == 118
OP_HASH160 == 169
OP_EQUALVERIFY == 136
OP_CHECKSIG == 172

\* the bytes a public-key hash is drawn from: they include the byte the
\* reading constructor searches for and the length byte it expects
HashBytes == {0, Uint160Size, OP_DUP, OP_HASH160}
PubKeyHashes == [1..Uint160Size -> HashBytes]

\* CBackwardTransferOut: an amount and a public-key hash
CBackwardTransferOut(nValue, pubKeyHash) ==
    [nValue |-> nValue, pubKeyHash |-> pubKeyHash]
BackwardTransfers == {CBackwardTransferOut(v, h) : v \in Amounts, h \in PubKeyHashes}

\* CScript::operator<< of a byte vector shorter than OP_PUSHDATA1: its
\* length in one byte, then its bytes
PushData(script, v) == script \o <<Len(v)>> \o v

\* std::find: the position of the first byte equal to b, Len(script) + 1
\* for the end iterator
Find(script, b) ==
    IF \E i \in 1..Len(script) : script[i] = b
    THEN CHOOSE i \in 1..Len(script) : script[i] = b /\ \A j \in 1..(i - 1) : script[j] # b
    ELSE Len(script) + 1

\* CTxOut::CTxOut(const CBackwardTransferOut&)
CTxOut_FromBackwardTransfer(btout) ==
    [nValue |-> btout.nValue,
     scriptPubKey |-> PushData(<<OP_DUP, OP_HASH160>>, btout.pubKeyHash)
                         \o <<OP_EQUALVERIFY, OP_CHECKSIG>>,
     isFromBackwardTransfer |-> TRUE]

\* the reading constructor searching from the back of the script
CBackwardTransferOut_FromTxOut_LastMatch(txout) ==
    LET s == txout.scriptPubKey
        it == CHOOSE i \in 1..Len(s) : s[i] = OP_HASH160 /\ \A j \in (i + 1)..Len(s) : s[j] # OP_HASH160
    IN  CBackwardTransferOut(txout.nValue,
            [i \in 1..Uint160Size |-> IF it + 1 + i <= Len(s) THEN s[it + 1 + i] ELSE 0])

\* CBackwardTransferOut::CBackwardTransferOut(const CTxOut&): the bytes
\* after the first OP_HASH160 and its length byte; an assertion fails when
\* there is no OP_HASH160 or the byte after it is not the hash length, and
\* a script that ends before the hash does is read past its end
CBackwardTransferOut_FromTxOut(txout) ==
    LET s == txout.scriptPubKey
        it == Find(s, OP_HASH160)
    IN  IF it > Len(s) THEN [assert |-> "it != txout.scriptPubKey.end()"]
        ELSE IF it + 1 > Len(s) THEN [undefined |-> "read at end()"]
        ELSE IF s[it + 1] # Uint160Size THEN [assert |-> "*it == sizeof(uint160)"]
        ELSE IF it + 1 + Uint160Size > Len(s) THEN [undefined |-> "range past end()"]
        ELSE CBackwardTransferOut(txout.nValue, [i \in 1..Uint160Size |-> s[it + 1 + i]])

\* a backward transfer is converted to an output
CallCTxOutFromBackwardTransfer ==
    /\ call.op = "none"
    /\ \E bt \in BackwardTransfers :
          call' = [NoCall EXCEPT !.op = "CTxOut(bt)", !.arg = bt,
                                 !.val = CTxOut_FromBackwardTransfer(bt)]
    /\ UNCHANGED <<tx, state, mode, walletVars, dbVars, witnessVars, lockVars>>

\* the output is converted back
CallCBackwardTransferOutFromTxOut ==
    /\ call.op = "CTxOut(bt)"
    /\ call' = [call EXCEPT !.op = "CBackwardTransferOut(CTxOut(bt))",
                            !.val = [txout |-> call.val,
                                     bt |-> CBackwardTransferOut_FromTxOut(call.val)]]
    /\ UNCHANGED <<tx, state, mode, walletVars, dbVars, witnessVars, lockVars>>

\* runs that convert one backward transfer there and back
InitConvert == InitTx("convert") /\ state = FreshState
NextConvert == CallCTxOutFromBackwardTransfer \/ CallCBackwardTransferOutFromTxOut
SpecConvert == InitConvert /\ [][NextConvert]_vars

----------------------------------------------------------------------------
(* CWalletTx: copy-assignment through its base classes                     *)

\* MerkleAbstractBase::Init(): no block linkage
NoLinkage == [hashBlock |-> NullHash, vMerkleBranch |-> <<>>, nIndex |-> -1]

\* the block linkages an entry is read with: none, and three positions in
\* two blocks
Linkages ==
    {NoLinkage,
     [hashBlock |-> <<1>>, vMerkleBranch |-> <<>>, nIndex |-> 0],
     [hashBlock |-> <<1>>, vMerkleBranch |-> <<<<7>>>>, nIndex |-> 1],
     [hashBlock |-> <<2>>, vMerkleBranch |-> <<<<8>>>>, nIndex |-> 0]}

\* the note data an entry is read with
NoteMaps == {<<>>, <<CNoteData(1)>>, <<CNoteData(2)>>}

\* the wallets an entry is bound to (NULL is 0)
WalletPointers == {0, 1}

\* CWalletTx(pwalletIn, txIn): the record, Init() of the merkle part, Init(pwalletIn)
\* of the wallet part, no note data
CWalletTx(pwalletIn, txIn) ==
    [tx |-> CTransaction_Copy(txIn),
     hashBlock |-> NoLinkage.hashBlock, vMerkleBranch |-> NoLinkage.vMerkleBranch,
     nIndex |-> NoLinkage.nIndex, fMerkleVerified |-> FALSE,
     pwallet |-> pwalletIn, cached |-> {}, nOrderPos |-> -1,
     mapNoteData |-> <<>>]

\* MerkleAbstractBase& operator=(const MerkleAbstractBase& m)
MerkleAbstractBase_Assign(dst, m) ==
    [dst EXCEPT !.tx = CTransactionBase_Assign(@, m.tx)]

\* CMerkleTx& operator=(const CMerkleTx& tx)
CMerkleTx_Assign(dst, t) ==
    MerkleAbstractBase_Assign([dst EXCEPT !.tx = CTransaction_Assign(@, t.tx)], t)

\* CWalletObjBase& operator=(const CWalletObjBase& o)
CWalletObjBase_Assign(dst, o) == MerkleAbstractBase_Assign(dst, o)

\* CWalletTx& operator=(const CWalletTx& tx)
CWalletTx_Assign(dst, t) ==
    [CWalletObjBase_Assign(CMerkleTx_Assign(dst, t), t) EXCEPT !.mapNoteData = t.mapNoteData]

\* the records of the entries of the assignment runs
AssignRecords ==
    {CTransaction_FromMutable(b) : b \in OtherBuilders(CMutableTransaction(EmptyTx, 0, 0, 0))}

\* two entries are constructed
ConstructEntries ==
    /\ call.op = "none"
    /\ \E ta \in AssignRecords, tb \in AssignRecords, pa \in WalletPointers :
          call' = [NoCall EXCEPT !.op = "CWalletTx",
                                 !.val = [a |-> CWalletTx(pa, ta), b |-> CWalletTx(1, tb)]]
    /\ UNCHANGED <<tx, state, mode, walletVars, dbVars, witnessVars, lockVars>>

\* SerializationOp reading an entry: its block linkage and its note data
\* come from the stream
ReadEntry ==
    /\ call.op = "CWalletTx"
    /\ \E la \in Linkages, lb \in Linkages, na \in NoteMaps, nb \in NoteMaps :
          call' = [call EXCEPT
                      !.op = "SerializationOp",
                      !.val.a = [@ EXCEPT !.hashBlock = la.hashBlock,
                                          !.vMerkleBranch = la.vMerkleBranch,
                                          !.nIndex = la.nIndex, !.mapNoteData = na],
                      !.val.b = [@ EXCEPT !.hashBlock = lb.hashBlock,
                                          !.vMerkleBranch = lb.vMerkleBranch,
                                          !.nIndex = lb.nIndex, !.mapNoteData = nb]]
    /\ UNCHANGED <<tx, state, mode, walletVars, dbVars, witnessVars, lockVars>>

\* a = b
AssignEntry ==
    /\ call.op \in {"CWalletTx", "SerializationOp"}
    /\ call' = [call EXCEPT !.op = "CWalletTx::operator=",
                            !.arg = call.val,
                            !.val.a = CWalletTx_Assign(call.val.a, call.val.b)]
    /\ UNCHANGED <<tx, state, mode, walletVars, dbVars, witnessVars, lockVars>>

\* runs that construct, read and assign two entries
InitAssign == InitTx("assign") /\ state = FreshState
NextAssign == ConstructEntries \/ ReadEntry \/ AssignEntry
SpecAssign == InitAssign /\ [][NextAssign]_vars

\* runs of the ledger with cached amounts
InitCache == InitTx("cache") /\ state = FreshState
NextCache == SyncTransaction \/ GetDebit
SpecCache == InitCache /\ [][NextCache]_vars

InitStore == InitTx("store") /\ state = FreshState
NextStore == SyncTransaction \/ SetBestChain
SpecStore == InitStore /\ [][NextStore]_vars

----------------------------------------------------------------------------
(* Reference predicates the claims are stated with                         *)

InvalidReason(reason) == <<Reject("REJECT_INVALID", reason, 100)>>

\* output k is the first violation of the scan over vout
VoutViolation(t, k) ==
    \/ t.vout[k] < 0
    \/ t.vout[k] > MAX_MONEY
    \/ ~MoneyRange(SumTo(t.vout, k))
FirstVoutViolation(t, k) ==
    /\ k \in 1..Len(t.vout)
    /\ VoutViolation(t, k)
    /\ \A j \in 1..(k - 1) : ~VoutViolation(t, j)
VoutReason(t, k) ==
    IF t.vout[k] < 0 THEN "bad-txns-vout-negative"
    ELSE IF t.vout[k] > MAX_MONEY THEN "bad-txns-vout-toolarge"
    ELSE "bad-txns-txouttotal-toolarge"

\* C1: CheckOutputsAmount scans vout in order; the first output that is
\* negative, too large, or takes the running sum out of [0, MAX_MONEY] makes
\* the check fail with exactly the reason of that output (no joinsplit error
\* and no later output takes its place); a record with an out-of-range
\* output is always rejected; on true every output amount and every prefix
\* sum of outputs is in [0, MAX_MONEY].
C1_VoutScan ==
    call.op = "CheckOutputsAmount" =>
        /\ \A k \in 1..Len(tx.vout) :
              FirstVoutViolation(tx, k) =>
                  call.ret = FALSE /\ state = InvalidReason(VoutReason(tx, k))
        /\ (\E k \in 1..Len(tx.vout) : ~MoneyRange(tx.vout[k])) => call.ret = FALSE
        /\ call.ret = TRUE =>
              \A k \in 1..Len(tx.vout) :
                  MoneyRange(tx.vout[k]) /\ MoneyRange(SumTo(tx.vout, k))

\* C1 witness: the first violation is the second output, a negative amount,
\* with a too-large output and a malformed joinsplit after it
C1_Witness ==
    /\ call.op = "CheckOutputsAmount"
    /\ Len(tx.vout) = 2 /\ tx.vout[1] = 1 /\ tx.vout[2] = -1
    /\ Len(tx.vjoinsplit) = 1 /\ tx.vjoinsplit[1].vpub_old = INT_MAX
    /\ state = InvalidReason("bad-txns-vout-negative")

\* joinsplit k is well formed and keeps the running total in range
JsTotal(t, k) == SumSeq(t.vout) + SumTo(VpubOld(t), k)
JsWellFormed(t, k) ==
    /\ MoneyRange(t.vjoinsplit[k].vpub_old)
    /\ MoneyRange(t.vjoinsplit[k].vpub_new)
    /\ (t.vjoinsplit[k].vpub_old = 0 \/ t.vjoinsplit[k].vpub_new = 0)
    /\ MoneyRange(JsTotal(t, k))
VoutClean(t) == \A k \in 1..Len(t.vout) : ~VoutViolation(t, k)

\* C2: if CheckOutputsAmount returns true, every joinsplit has vpub_old and
\* vpub_new in [0, MAX_MONEY], at most one of them nonzero, and the running
\* total of outputs plus vpub_old stays in [0, MAX_MONEY]; a joinsplit with
\* both in range and both nonzero, with no earlier violation, is rejected
\* with "bad-txns-vpubs-both-nonzero".
C2_JoinSplitsWellFormed ==
    call.op = "CheckOutputsAmount" =>
        /\ call.ret = TRUE =>
              \A k \in 1..Len(tx.vjoinsplit) : JsWellFormed(tx, k)
        /\ \A k \in 1..Len(tx.vjoinsplit) :
              ( /\ VoutClean(tx)
                /\ \A j \in 1..(k - 1) : JsWellFormed(tx, j)
                /\ MoneyRange(tx.vjoinsplit[k].vpub_old)
                /\ MoneyRange(tx.vjoinsplit[k].vpub_new)
                /\ tx.vjoinsplit[k].vpub_old # 0
                /\ tx.vjoinsplit[k].vpub_new # 0 )
              => call.ret = FALSE /\ state = InvalidReason("bad-txns-vpubs-both-nonzero")

\* C2 witness: after a clean output and a clean joinsplit, a joinsplit with
\* both public values nonzero is the one that is reported
C2_Witness ==
    /\ call.op = "CheckOutputsAmount"
    /\ Len(tx.vout) = 1 /\ tx.vout[1] = 1
    /\ Len(tx.vjoinsplit) = 2
    /\ tx.vjoinsplit[1].vpub_old = 1 /\ tx.vjoinsplit[1].vpub_new = 0
    /\ tx.vjoinsplit[2].vpub_old = 1 /\ tx.vjoinsplit[2].vpub_new = 1
    /\ state = InvalidReason("bad-txns-vpubs-both-nonzero")

\* a record the amount checks of 4.2 accept
Accepted(t) ==
    /\ CheckOutputsAmount(t, FreshState).ret
    /\ \A ub \in UBValues : CheckInputsAmount(t, FreshState, ub).ret

CcSum(t) == SumSeq(t.vsc_ccout) + SumSeq(t.vcl_ccout) + SumSeq(t.vft_ccout)
JoinSplitValueIn(t) == GetJoinSplitValueIn(t, 0).val

\* C3 as stated: for every accepted record, crosschain outputs or not,
\* GetValueOut() - GetJoinSplitValueIn() = sum(vout) + sum(vpub_old) - sum(vpub_new)
C3_AsStated ==
    (call.op = "GetValueOut" /\ Accepted(tx) /\ ~call.thrown) =>
        call.val - JoinSplitValueIn(tx)
            = SumSeq(tx.vout) + SumSeq(VpubOld(tx)) - SumSeq(VpubNew(tx))

\* C3 amended: for every accepted record for which GetValueOut() returns,
\* GetValueOut() - GetJoinSplitValueIn() = sum(vout) + sum(vpub_old)
\* + sum(creation) + sum(certifier lock) + sum(forward transfer) - sum(vpub_new);
\* for an accepted record without crosschain outputs GetValueOut() returns
\* and the difference is sum(vout) + sum(vpub_old) - sum(vpub_new).
C3_Conservation ==
    (call.op = "GetValueOut" /\ Accepted(tx)) =>
        /\ ~GetJoinSplitValueIn(tx, 0).thrown
        /\ ~call.thrown =>
              call.val - JoinSplitValueIn(tx)
                  = SumSeq(tx.vout) + SumSeq(VpubOld(tx)) + CcSum(tx)
                    - SumSeq(VpubNew(tx))
        /\ ccIsNull(tx) =>
              /\ ~call.thrown
              /\ call.val - JoinSplitValueIn(tx)
                    = SumSeq(tx.vout) + SumSeq(VpubOld(tx)) - SumSeq(VpubNew(tx))

\* C3 witness: an accepted record with an output, a joinsplit taking value
\* in, and a forward transfer
C3_Witness ==
    /\ call.op = "GetValueOut" /\ Accepted(tx) /\ ~call.thrown
    /\ Len(tx.vout) = 1 /\ tx.vout[1] = 1
    /\ Len(tx.vjoinsplit) = 1 /\ tx.vjoinsplit[1].vpub_new = MAX_MONEY
    /\ Len(tx.vft_ccout) = 1 /\ tx.vft_ccout[1] = 1
    /\ call.val = 2

\* C4: GetValueOut either fails with an out-of-range fault or returns a value
\* in [0, MAX_MONEY] equal to the sum of outputs, vpub_old values and the
\* three crosschain sums; it fails whenever a partial sum exceeds MAX_MONEY,
\* the one reached after adding the crosschain sums included.
C4_ValueOutRangeChecked ==
    call.op = "GetValueOut" =>
        \/ call.thrown
        \/ /\ MoneyRange(call.val)
           /\ call.val = SumSeq(tx.vout) + SumSeq(VpubOld(tx)) + CcSum(tx)

\* C9: CheckInputsAmount returns true exactly when every vpub_new and every
\* prefix sum of the vpub_new values is in [0, MAX_MONEY]; otherwise it
\* fails with "bad-txns-txintotal-toolarge"; the outcome is the same for the
\* record with its outputs, vpub_old values and crosschain outputs changed.
InputSideOnly(t, old) ==
    [t EXCEPT !.vout = <<>>, !.vsc_ccout = <<>>, !.vcl_ccout = <<>>, !.vft_ccout = <<>>,
              !.vjoinsplit = [i \in 1..Len(t.vjoinsplit) |->
                                 [t.vjoinsplit[i] EXCEPT !.vpub_old = old]]]
C9_InputsAmount ==
    call.op = "CheckInputsAmount" =>
        /\ call.ret = (\A k \in 1..Len(tx.vjoinsplit) :
                          /\ MoneyRange(tx.vjoinsplit[k].vpub_new)
                          /\ MoneyRange(SumTo(VpubNew(tx), k)))
        /\ call.ret = FALSE => state = InvalidReason("bad-txns-txintotal-toolarge")
        /\ call.ret = TRUE => state = FreshState
        /\ \A old \in Amounts, ub \in UBValues :
              CheckInputsAmount(InputSideOnly(tx, old), FreshState, ub).ret = call.ret

\* C9 witness: two joinsplits, each vpub_new in range, whose sum is not,
\* in a record whose output side is itself out of range
C9_Witness ==
    /\ call.op = "CheckInputsAmount" /\ call.ret = FALSE
    /\ Len(tx.vjoinsplit) = 2
    /\ tx.vjoinsplit[1].vpub_new = 1 /\ tx.vjoinsplit[2].vpub_new = MAX_MONEY
    /\ Len(tx.vout) = 1 /\ tx.vout[1] = -1

\* C10: CheckAmountRange with an accumulator in [0, MAX_MONEY] returns true
\* exactly when the amount is nonzero and in [0, MAX_MONEY] and accumulator
\* plus amount is in [0, MAX_MONEY], and then the accumulator has grown by
\* exactly the amount; over all crosschain outputs of a record with one
\* accumulator it accepts all of them exactly when every amount is in
\* (0, MAX_MONEY] and their total is at most MAX_MONEY.
C10_CheckAmountRange ==
    /\ call.op = "CheckAmountRange" =>
          LET nValue == call.arg[1]
              cum    == call.arg[2] IN
          /\ call.ret = (nValue # 0 /\ MoneyRange(nValue) /\ MoneyRange(cum + nValue))
          /\ call.ret => (call.val = cum + nValue /\ ~call.ovf)
    /\ call.op = "CheckCcAmounts" =>
          /\ call.ret = ( /\ \A i \in 1..Len(AllCcOut(tx)) :
                                AllCcOut(tx)[i] > 0 /\ AllCcOut(tx)[i] <= MAX_MONEY
                          /\ CcSum(tx) <= MAX_MONEY )
          /\ call.ret => call.val = CcSum(tx)

\* C10 witness: one output of each variant, each amount in range, refused
\* because the total over the three variants exceeds MAX_MONEY
C10_Witness ==
    /\ call.op = "CheckCcAmounts" /\ call.ret = FALSE
    /\ tx.vsc_ccout = <<1>> /\ tx.vcl_ccout = <<1>> /\ tx.vft_ccout = <<1>>
    /\ call.arg = <<2>>

PairwiseDistinct(keys) ==
    \A i, j \in 1..Len(keys) : i # j => keys[i] # keys[j]

\* C5: CheckInputsDuplication returns true exactly when the prevouts of vin
\* are pairwise distinct and the nullifiers over all joinsplits (the two of
\* one joinsplit included) are pairwise distinct; a repeated prevout is
\* reported as "bad-txns-inputs-duplicate" in preference to a nullifier
\* repeat, otherwise a repeated nullifier as
\* "bad-joinsplits-nullifiers-duplicate"; nothing but the record decides.
C5_InputsDuplication ==
    call.op = "CheckInputsDuplication" =>
        /\ call.ret = (PairwiseDistinct(Prevouts(tx)) /\ PairwiseDistinct(Nullifiers(tx)))
        /\ ~PairwiseDistinct(Prevouts(tx))
              => state = InvalidReason("bad-txns-inputs-duplicate")
        /\ (PairwiseDistinct(Prevouts(tx)) /\ ~PairwiseDistinct(Nullifiers(tx)))
              => state = InvalidReason("bad-joinsplits-nullifiers-duplicate")
        /\ call.ret = TRUE => state = FreshState

\* C5 witness: a prevout repeated with another one in between, in a record
\* that also repeats a nullifier inside one joinsplit
C5_Witness ==
    /\ call.op = "CheckInputsDuplication"
    /\ Len(tx.vin) = 3
    /\ tx.vin[1].prevout = 1 /\ tx.vin[2].prevout = 2 /\ tx.vin[3].prevout = 1
    /\ state = InvalidReason("bad-txns-inputs-duplicate")

\* the nullifier case of C5: a nullifier repeated across two joinsplits
C5_NullifierCase ==
    /\ call.op = "CheckInputsDuplication"
    /\ Len(tx.vjoinsplit) = 2
    /\ tx.vjoinsplit[1].nullifiers = <<1, 2>> /\ tx.vjoinsplit[2].nullifiers = <<3, 1>>
    /\ state = InvalidReason("bad-joinsplits-nullifiers-duplicate")

StatelessChecks ==
    {"CheckInputsAmount", "CheckOutputsAmount", "CheckInputsDuplication",
     "CheckInputsInteraction", "CheckInputsAvailability", "CheckOutputsAvailability",
     "CheckVersionBasic"}

\* C8: each stateless check stops at its first violation: it returns false
\* exactly when it recorded a rejection, a failing call records exactly one
\* (code, reason, score) triple, a call returning true leaves the validation
\* state as it was, and no call throws.
C8_OneRejectionPerFailure ==
    call.op \in StatelessChecks =>
        /\ ~call.thrown
        /\ call.ret = FALSE <=> state # call.pre
        /\ call.ret = FALSE =>
              /\ Len(state) = Len(call.pre) + 1
              /\ SubSeq(state, 1, Len(call.pre)) = call.pre
              /\ state[Len(state)].score \in {0, 10, 100}
        /\ call.ret = TRUE => state = call.pre

\* C8 witness: a record with two violations of the same check (two negative
\* outputs), checked with a validation state that already held a rejection,
\* adds one triple, that of the first violation
C8_Witness ==
    /\ call.op = "CheckOutputsAmount" /\ call.ret = FALSE
    /\ tx.vout = <<-1, -1>>
    /\ call.pre = UsedState
    /\ state = Append(UsedState, Reject("REJECT_INVALID", "bad-txns-vout-negative", 100))

SpendKeys == [map : {"outpoint"}, k : Outpoints] \cup [map : {"nullifier"}, k : NoteNullifiers]
ClaimantsOf(key) ==
    IF key.map = "outpoint" THEN mapTxSpends[key.k] ELSE mapTxNullifiers[key.k]
Active(h) == mapWallet[h].status # "conflicted"
KeysOf(h) ==
    {key \in SpendKeys : \E i \in 1..Len(ClaimantsOf(key)) : ClaimantsOf(key)[i] = h}

Calls(fn) == {i \in 1..Len(dbLog.calls) : dbLog.calls[i].fn = fn}
Succeeded(fn) == \E i \in Calls(fn) : dbLog.calls[i].res = "ok"
\* the store with every write of this SetBestChain applied
AllWritten ==
    [txs |-> dbLog.before.txs \cup dbLog.entries, wcs |-> TRUE, best |-> dbLog.loc]

\* C7: TxnCommit is invoked only if TxnBegin succeeded and every ledger-entry
\* write, the witness-cache-size write and the best-block write succeeded;
\* otherwise either no write is attempted (begin failed) or the transaction
\* is aborted exactly once and not committed; the store afterwards holds
\* none of the writes or all of them.
C7_SetBestChainAtomic ==
    dbLog.calls # <<>> =>
        /\ Calls("TxnCommit") # {} =>
              /\ dbLog.calls[1] = DbCall("TxnBegin", 0, "ok")
              /\ \A h \in dbLog.entries :
                    \E i \in Calls("WriteTx") : dbLog.calls[i] = DbCall("WriteTx", h, "ok")
              /\ Succeeded("WriteWitnessCacheSize")
              /\ Succeeded("WriteBestBlock")
              /\ Calls("TxnAbort") = {}
              /\ Cardinality(Calls("TxnCommit")) = 1
              /\ \A i \in 1..Len(dbLog.calls) :
                    dbLog.calls[i].fn # "TxnCommit" => dbLog.calls[i].res = "ok"
        /\ Calls("TxnCommit") = {} =>
              \/ /\ Len(dbLog.calls) = 1
                 /\ dbLog.calls[1].fn = "TxnBegin" /\ dbLog.calls[1].res # "ok"
              \/ /\ dbLog.calls[1] = DbCall("TxnBegin", 0, "ok")
                 /\ Cardinality(Calls("TxnAbort")) = 1
                 /\ dbLog.calls[Len(dbLog.calls)].fn = "TxnAbort"
        /\ dbCommitted = dbLog.before \/ dbCommitted = AllWritten
        /\ dbCommitted # dbLog.before => Succeeded("TxnCommit")

\* C7 witness: with two ledger entries written, WriteBestBlock throws; the
\* transaction is aborted and the store keeps what an earlier SetBestChain
\* committed
C7_Witness ==
    /\ Cardinality(Calls("WriteTx")) = 2
    /\ \E i \in Calls("WriteBestBlock") : dbLog.calls[i].res = "throw"
    /\ Cardinality(Calls("TxnAbort")) = 1
    /\ dbLog.before.best = 1 /\ dbLog.loc = 2
    /\ dbCommitted = dbLog.before

----------------------------------------------------------------------------
(* C11                                                                     *)

SingleNullInput(t) == Len(t.vin) = 1 /\ t.vin[1].prevout = NullPrevout
NoNullInput(t) == \A i \in 1..Len(t.vin) : t.vin[i].prevout # NullPrevout
CbScriptSigInBounds(t) == t.vin[1].scriptSig >= 2 /\ t.vin[1].scriptSig <= 100

\* C11: CheckInputsInteraction returns true exactly when the record is a
\* coinbase without joinsplits whose scriptSig length is in [2, 100], or is
\* not a coinbase and has no null prevout; a coinbase with joinsplits is
\* reported as bad-cb-has-joinsplits (score 100) whatever its scriptSig
\* length, a coinbase without joinsplits and a length out of bounds as
\* bad-cb-length (score 100), a null prevout of a non-coinbase record as
\* bad-txns-prevout-null (score 10).
C11_InputsInteraction ==
    call.op = "CheckInputsInteraction" =>
        LET cb == SingleNullInput(tx)
            js == Len(tx.vjoinsplit) > 0
        IN
        /\ call.ret = TRUE <=> \/ cb /\ ~js /\ CbScriptSigInBounds(tx)
                               \/ ~cb /\ NoNullInput(tx)
        /\ cb /\ js =>
              state = Append(call.pre, Reject("REJECT_INVALID", "bad-cb-has-joinsplits", 100))
        /\ cb /\ ~js /\ ~CbScriptSigInBounds(tx) =>
              state = Append(call.pre, Reject("REJECT_INVALID", "bad-cb-length", 100))
        /\ ~cb /\ ~NoNullInput(tx) =>
              state = Append(call.pre, Reject("REJECT_INVALID", "bad-txns-prevout-null", 10))

\* C11 witness: a coinbase that has a joinsplit and a scriptSig that is too
\* short is reported for its joinsplit
C11_Witness ==
    /\ call.op = "CheckInputsInteraction" /\ call.ret = FALSE
    /\ SingleNullInput(tx) /\ tx.vin[1].scriptSig = 1
    /\ Len(tx.vjoinsplit) = 1
    /\ state = <<Reject("REJECT_INVALID", "bad-cb-has-joinsplits", 100)>>

\* a record with a null prevout among two inputs is refused with score 10
C11_NonCoinbaseCase ==
    /\ call.op = "CheckInputsInteraction" /\ call.ret = FALSE
    /\ Len(tx.vin) = 2 /\ tx.vin[2].prevout = NullPrevout
    /\ state = <<Reject("REJECT_INVALID", "bad-txns-prevout-null", 10)>>

----------------------------------------------------------------------------
(* C12                                                                     *)

\* some store call of the last SetBestChain returned false or threw
StoreCallFailed == \E i \in 1..Len(dbLog.calls) : dbLog.calls[i].res # "ok"

\* what the caller of the void SetBestChain can observe of a run: only
\* whether an exception left it
ReportedUpward == dbLog.exc

\* C12: a SetBestChain run in which a store call failed or threw reports the
\* failure to its caller, so that a failed run can be told from a
\* successful one.
C12_FailureReported ==
    (dbLog.calls # <<>> /\ StoreCallFailed) => ReportedUpward

\* the failing run of C12: WriteTx of the only ledger entry returns false,
\* the transaction is aborted and the call returns like a successful one
C12_SilentFailure ==
    /\ dbLog.calls = <<DbCall("TxnBegin", 0, "ok"), DbCall("WriteTx", 1, "false"),
                       DbCall("TxnAbort", 0, "ok")>>
    /\ ~dbLog.exc

----------------------------------------------------------------------------
(* C13                                                                     *)

ResolvedSum(t, view) == SumSeq([i \in 1..Len(t.vin) |-> view[t.vin[i].prevout]])
AllResolved(t, view) == \A i \in 1..Len(t.vin) : view[t.vin[i].prevout] # Unresolved
\* the accumulation of vpub_new stays in [0, MAX_MONEY]
VpubNewInRange(t) ==
    \A k \in 1..Len(t.vjoinsplit) :
        MoneyRange(t.vjoinsplit[k].vpub_new) /\ MoneyRange(SumTo(VpubNew(t), k))

GetValueInAsStated ==
    LET view == call.arg.view IN
    /\ SingleNullInput(tx) => ~call.thrown /\ call.val = 0
    /\ ~SingleNullInput(tx) /\ AllResolved(tx, view) /\ VpubNewInRange(tx) =>
          /\ ~call.thrown
          /\ call.val = ResolvedSum(tx, view) + SumSeq(VpubNew(tx))
    /\ ~SingleNullInput(tx) /\ ~(AllResolved(tx, view) /\ VpubNewInRange(tx)) =>
          call.thrown

\* C13: GetValueIn(view) returns 0 for a coinbase; for any other record it
\* returns the sum of the amounts the view resolves for its inputs plus the
\* sum of vpub_new, and fails with a fault, never returning a value, when
\* an input is unresolved or the vpub_new accumulation leaves the range.
C13_GetValueIn == call.op = "GetValueIn" => GetValueInAsStated

\* the same property of the definition compiled without BITCOIN_TX
C13_FullBuild ==
    (call.op = "GetValueIn" /\ ~call.arg.BITCOIN_TX) => GetValueInAsStated

\* the full build returning the sum of two resolved inputs and one vpub_new
C13_FullBuildCase ==
    /\ call.op = "GetValueIn" /\ ~call.arg.BITCOIN_TX /\ ~call.thrown
    /\ Len(tx.vin) = 2 /\ tx.vin[1].prevout = 1 /\ tx.vin[2].prevout = 2
    /\ call.arg.view[1] = 1 /\ call.arg.view[2] = MAX_MONEY
    /\ call.val = 3

----------------------------------------------------------------------------
(* C14                                                                     *)

\* the tracked records registered for a spend key
RegisteredFor(key) ==
    IF key.map = "outpoint"
    THEN {mapTxSpends[key.k][i] : i \in 1..Len(mapTxSpends[key.k])}
    ELSE {mapTxNullifiers[key.k][i] : i \in 1..Len(mapTxNullifiers[key.k])}

----------------------------------------------------------------------------
(* C15                                                                     *)

\* a run of N connections followed by N disconnections has just ended
RunClosed ==
    /\ ~tipLog.fatal
    /\ tipLog.ups >= 1 /\ tipLog.ups = tipLog.downs
    /\ tipLog.ups <= WITNESS_CACHE_SIZE

\* the notes that existed when the run began, as (entry, note) pairs
BaseNotes == {p \in (DOMAIN tipLog.base) \X {1} : p[2] \in DOMAIN tipLog.base[p[1]]}
Before(p) == tipLog.base[p[1]][p[2]].witnesses
Now(p) == mapWallet[p[1]].mapNoteData[p[2]].witnesses
SameFront(p) == Before(p) # <<>> => (Now(p) # <<>> /\ Now(p)[1] = Before(p)[1])

\* C15 as stated: N <= WITNESS_CACHE_SIZE connections followed by N
\* disconnections restore the length and the front witness of every note's
\* history, whatever its length was before.
C15_AsStated ==
    RunClosed => \A p \in BaseNotes : Len(Now(p)) = Len(Before(p)) /\ SameFront(p)

\* C15 amended: the length and the front witness are restored when the
\* history held at most WITNESS_CACHE_SIZE - N witnesses before the run;
\* a longer history comes back WITNESS_CACHE_SIZE - N long (its oldest
\* witnesses were evicted), with its front witness restored if any is left.
C15_PushPopSymmetry ==
    RunClosed =>
        \A p \in BaseNotes :
            IF Len(Before(p)) + tipLog.ups <= WITNESS_CACHE_SIZE
            THEN Len(Now(p)) = Len(Before(p)) /\ SameFront(p)
            ELSE /\ Len(Now(p)) = WITNESS_CACHE_SIZE - tipLog.ups
                 /\ Now(p) # <<>> => Now(p)[1] = Before(p)[1]

\* C15 witness: a note holding one witness sees one connection and one
\* disconnection and holds the same single witness again
C15_Witness ==
    /\ RunClosed /\ tipLog.ups = 1
    /\ \E p \in BaseNotes : Len(Before(p)) = 1 /\ Now(p) = Before(p)

\* a history at the retention depth comes back one witness shorter
C15_EvictionCase ==
    /\ RunClosed /\ tipLog.ups = 1
    /\ \E p \in BaseNotes :
          Len(Before(p)) = WITNESS_CACHE_SIZE /\ Len(Now(p)) = WITNESS_CACHE_SIZE - 1

----------------------------------------------------------------------------
(* C17                                                                     *)

\* the fields the lock does not protect
UnprotectedFields == {"fFileBacked", "strWalletFile"}

\* C17: every read or write of a CWallet field other than fFileBacked and
\* strWalletFile is made by a thread that holds cs_wallet.
C17_AccessUnderLock ==
    \A a \in accesses : a.field \notin UnprotectedFields => a.held

\* the failing run of C17: one thread is inside Inventory, holding the
\* lock, while fBroadcastTransactions has been written without it
C17_UnlockedWrite ==
    /\ [field |-> "fBroadcastTransactions", held |-> FALSE] \in accesses
    /\ fields.fBroadcastTransactions
    /\ \E t \in Threads : cs_wallet = t /\ pc[t].op = "Inventory"

----------------------------------------------------------------------------
(* C18                                                                     *)

----------------------------------------------------------------------------
(* C19                                                                     *)

\* C19: after the construction of a record from a builder and after any
\* number of UpdateHash calls, copy constructions, copy assignments and
\* conversions to a builder and back, the record has the fields of the
\* builder and its cached hash is the content hash of those fields; and two
\* records built from builders have the same cached hash exactly when the
\* builders agree on every field.
C19_CachedHashIsContentHash ==
    call.op \in RecordOps =>
        /\ CMutableTransaction_FromTx(call.val) = call.arg.builder
        /\ call.val.hash = SerializeHash(call.arg.builder)
        /\ call.val.hash = SerializeHash(call.val)
        /\ call.val.hash = call.arg.other.hash <=> call.arg.builder = call.arg.otherBuilder

\* C19 witness: a record with an input and an output was assigned to a
\* record built from a builder with another locktime, and carries its own
\* fields and hash, not those of the record it replaced
C19_Witness ==
    /\ call.op = "operator="
    /\ call.val.vin # <<>> /\ call.val.vout # <<>>
    /\ call.arg.otherBuilder.nLockTime # call.arg.builder.nLockTime
    /\ call.val.hash # call.arg.other.hash
    /\ call.val.hash = SerializeHash(call.val)

----------------------------------------------------------------------------
(* C20                                                                     *)

IsPermutation(m, len) == {m[i] : i \in 0..(len - 1)} = 0..(len - 1)

\* C20: after JSDescription::Randomized, inputMap and outputMap are
\* permutations of {0, 1}, the shuffled inputs[i] is the original
\* inputs[inputMap[i]] and the shuffled outputs[i] is the original
\* outputs[outputMap[i]]; the first draw of the generator alone decides
\* the input map and the second alone the output map.
C20_MapsRecordShuffle ==
    call.op = "Randomized" =>
        /\ IsPermutation(call.val.inputMap, ZC_NUM_JS_INPUTS)
        /\ IsPermutation(call.val.outputMap, ZC_NUM_JS_OUTPUTS)
        /\ \A i \in 0..(ZC_NUM_JS_INPUTS - 1) :
              call.val.inputs[i] = call.arg.inputs[call.val.inputMap[i]]
        /\ \A i \in 0..(ZC_NUM_JS_OUTPUTS - 1) :
              call.val.outputs[i] = call.arg.outputs[call.val.outputMap[i]]
        /\ call.val.inputMap[ZC_NUM_JS_INPUTS - 1] = call.arg.draws[1]
        /\ call.val.outputMap[ZC_NUM_JS_OUTPUTS - 1] = call.arg.draws[2]

\* C20 witness: two different inputs were swapped while two different
\* outputs stayed in place
C20_Witness ==
    /\ call.op = "Randomized"
    /\ call.arg.inputs[0] # call.arg.inputs[1]
    /\ call.arg.outputs[0] # call.arg.outputs[1]
    /\ call.val.inputs # call.arg.inputs
    /\ call.val.outputs = call.arg.outputs
    /\ call.val.inputMap[0] = 1

----------------------------------------------------------------------------
(* C21                                                                     *)

\* the arguments the claim lists for the scheme-B routine, after the proof
GrothArguments(js, pk) ==
    <<js.proof, js.anchor, h_sig(js.randomSeed, js.nullifiers, pk), js.macs[1], js.macs[2],
      js.nullifiers[1], js.nullifiers[2], js.commitments[1], js.commitments[2],
      js.vpub_old, js.vpub_new>>

\* C21: Verify returns the verdict of the one external verifier that matches
\* the variant of the stored proof, called once with the listed arguments,
\* the other verifier is not called and the joinsplit is unchanged; and
\* getNewInstance(useGroth) holds a Groth proof exactly when useGroth.
C21_VerifyDispatch ==
    /\ call.op = "Verify" =>
        LET js == call.arg.jsdesc
            pk == call.arg.joinSplitPubKey IN
        /\ Len(call.pre) = 1
        /\ call.val = js
        /\ js.proof = PHGRProof =>
              /\ call.ret = call.arg.oracle.phgr
              /\ call.pre[1].fn = "params.verify"
              /\ call.pre[1].args = <<js.proof, pk, js.randomSeed, js.macs, js.nullifiers,
                                      js.commitments, js.vpub_old, js.vpub_new, js.anchor>>
        /\ js.proof = GrothProof =>
              /\ call.ret = call.arg.oracle.groth
              /\ call.pre[1].fn = "librustzcash_sprout_verify"
              /\ call.pre[1].args = GrothArguments(js, pk)
    /\ call.op = "getNewInstance" => (call.val.proof = GrothProof <=> call.arg)

\* C21 witness: a filled Groth joinsplit was verified, the scheme-B routine
\* refused it while the scheme-A verifier would have accepted
C21_Witness ==
    /\ call.op = "Verify"
    /\ call.arg.jsdesc.proof = GrothProof
    /\ call.arg.jsdesc.nullifiers = <<1, 2>>
    /\ call.arg.oracle.phgr /\ ~call.arg.oracle.groth
    /\ ~call.ret

----------------------------------------------------------------------------
(* C22                                                                     *)

----------------------------------------------------------------------------
(* C23                                                                     *)

\* a note as each of the three constructors makes it
NewNotes ==
    {CNoteData_Default} \cup {CNoteData_Address(a) : a \in {1, 2}}
        \cup {CNoteData_AddressNullifier(a, n) : a \in {1, 2}, n \in {1, 2}}

\* the ledger entries the last ChainTip callback found
SeenByChainTip == IF call.op = "ChainTip" THEN call.arg.present ELSE {}

----------------------------------------------------------------------------
(* C24                                                                     *)

\* output i of the record fails a test of CheckOutputsAreStandard other
\* than the replay-protection test
OtherDefect(i, env) ==
    LET o == tx.vout[i] IN
    \/ ~o.standard
    \/ o.referencedHeight > 0 /\ ChainHeight - o.referencedHeight < CheckBlockAtHeightMinAge
    \/ o.whichType = "TX_MULTISIG_REPLAY" /\ ~env.fIsBareMultisigStd
    \/ o.whichType \notin {"TX_NULL_DATA_REPLAY", "TX_MULTISIG_REPLAY"}
          /\ o.dust /\ ~env.regtest
    \/ o.whichType = "TX_MULTISIG_REPLAY" /\ env.fIsBareMultisigStd /\ o.dust /\ ~env.regtest

\* some output without the flag has a script type not allowed at the height
UnflaggedNotAllowed(env) ==
    \E i \in 1..Len(tx.vout) :
        ~tx.vout[i].isFromBackwardTransfer /\ tx.vout[i].whichType \notin env.allowed

OpCodeCheckAsStated ==
    call.op = "CheckOutputsCheckBlockAtHeightOpCode" =>
        /\ ~call.ret <=> (~IsCoinBase(tx) /\ UnflaggedNotAllowed(call.arg.env))
        /\ ~call.ret => state = DoS(call.pre, 0, "REJECT_CHECKBLOCKATHEIGHT_NOT_FOUND",
                                    "op-checkblockatheight-needed")
        /\ call.ret => state = call.pre

StandardCheckAsStated ==
    /\ (\E i \in 1..Len(tx.vout) :
           tx.vout[i].isFromBackwardTransfer /\ OtherDefect(i, call.arg.env)) => ~call.ret
    /\ (~call.ret /\ call.val = "op-checkblockatheight-needed") =>
           (~IsCoinBase(tx) /\ UnflaggedNotAllowed(call.arg.env))

C24_FullBuild ==
    /\ OpCodeCheckAsStated
    /\ (call.op = "CheckOutputsAreStandard" /\ ~call.arg.BITCOIN_TX) => StandardCheckAsStated

\* the full build rejects a non-coinbase record for its flagged dust output
\* although an unflagged output of a type that is not allowed follows it,
\* and the opcode check passes a record whose only output of that type is
\* flagged
C24_FullBuildCase ==
    \/ /\ call.op = "CheckOutputsAreStandard" /\ ~call.arg.BITCOIN_TX
       /\ Len(tx.vout) = 2 /\ ~IsCoinBase(tx)
       /\ tx.vout[1].isFromBackwardTransfer /\ tx.vout[1].dust
       /\ ~call.ret /\ call.val = "dust"
    \/ /\ call.op = "CheckOutputsCheckBlockAtHeightOpCode"
       /\ ~IsCoinBase(tx) /\ call.ret
       /\ \E i \in 1..Len(tx.vout) :
             tx.vout[i].isFromBackwardTransfer /\ tx.vout[i].whichType \notin call.arg.env.allowed

----------------------------------------------------------------------------
(* C25                                                                     *)

\* C25: after BindWallet, and so after MarkDirty, on a ledger entry, no
\* cached-amount flag of the entry is set: debit, credit, immature credit,
\* available credit, the four watch-only ones and change.
C25_AllFlagsCleared ==
    call.op = "BindWallet" => mapWallet[call.arg].cached \cap CacheFlags = {}

\* the entry that was bound had its debit and its immature credit cached;
\* the cached debit is gone
C25_DebitCleared ==
    /\ call.op = "BindWallet"
    /\ "fDebitCached" \notin mapWallet[call.arg].cached
    /\ "fImmatureCreditCached" \in mapWallet[call.arg].cached

----------------------------------------------------------------------------
(* C26                                                                     *)

AmountOps ==
    {"CheckInputsAmount", "CheckOutputsAmount", "CTransactionBase::GetValueOut",
     "GetValueOut", "GetJoinSplitValueIn"}

\* C26: no addition made by CheckInputsAmount, CheckOutputsAmount, the two
\* GetValueOut and GetJoinSplitValueIn leaves the range of the signed
\* integer type, whatever amounts the record holds.
C26_NoSignedOverflow ==
    call.op \in AmountOps => ~call.ovf

\* CheckOutputsAmount tests every addend before it adds: it met the largest
\* integer after an amount in range and rejected it without an overflow
C26_OutputsCheckedFirst ==
    /\ call.op = "CheckOutputsAmount" /\ ~call.ret /\ ~call.ovf
    /\ Len(tx.vout) = 2 /\ tx.vout[1] = 1 /\ tx.vout[2] = INT_MAX

\* C26 for the one function that tests before it adds
C26_CheckOutputsAmountOnly ==
    call.op = "CheckOutputsAmount" => ~call.ovf

----------------------------------------------------------------------------
(* C27                                                                     *)

\* C27: on every record CheckInputsAmount returns true exactly when
\* GetJoinSplitValueIn returns without throwing, and when CheckOutputsAmount
\* returns true the accumulation of the output amounts and of the vpub_old
\* values in GetValueOut does not throw and reaches the total the validator
\* computed.
C27_ValidatorsAgreeWithGetters ==
    call.op = "validators and getters" =>
        /\ call.arg.CheckInputsAmount <=> ~call.arg.GetJoinSplitValueIn.thrown
        /\ call.arg.CheckOutputsAmount.ret =>
              /\ ~call.arg.ValueOutBeforeCc.thrown
              /\ call.arg.ValueOutBeforeCc.val = call.arg.CheckOutputsAmount.acc
              /\ ccIsNull(tx) =>
                    /\ ~call.arg.GetValueOut.thrown
                    /\ call.arg.GetValueOut.val = call.arg.CheckOutputsAmount.acc

\* C27 witness: a record with an output and two joinsplits passes the output
\* check with a total of MAX_MONEY, which GetValueOut returns too, while its
\* input side is rejected by the check and by the getter
C27_Witness ==
    /\ call.op = "validators and getters"
    /\ Len(tx.vout) = 1 /\ Len(tx.vjoinsplit) = 2
    /\ call.arg.CheckOutputsAmount.ret
    /\ call.arg.CheckOutputsAmount.acc = MAX_MONEY
    /\ call.arg.GetValueOut = [thrown |-> FALSE, val |-> MAX_MONEY]
    /\ ~call.arg.CheckInputsAmount /\ call.arg.GetJoinSplitValueIn.thrown

----------------------------------------------------------------------------
(* C28                                                                     *)

\* C28: CheckInputsAvailability rejects, with bad-txns-vin-empty and score
\* 10, exactly the records whose vin and vjoinsplit are both empty;
\* CheckOutputsAvailability rejects, with bad-txns-vout-empty and score 10,
\* exactly the records whose vout, vjoinsplit and three crosschain-output
\* lists are all empty; every other record is accepted and the validation
\* state is left as it was.
C28_Availability ==
    /\ call.op = "CheckInputsAvailability" =>
          IF tx.vin = <<>> /\ tx.vjoinsplit = <<>>
          THEN ~call.ret /\ state = DoS(call.pre, 10, "REJECT_INVALID", "bad-txns-vin-empty")
          ELSE call.ret /\ state = call.pre
    /\ call.op = "CheckOutputsAvailability" =>
          IF /\ tx.vout = <<>> /\ tx.vjoinsplit = <<>>
             /\ tx.vsc_ccout = <<>> /\ tx.vcl_ccout = <<>> /\ tx.vft_ccout = <<>>
          THEN ~call.ret /\ state = DoS(call.pre, 10, "REJECT_INVALID", "bad-txns-vout-empty")
          ELSE call.ret /\ state = call.pre

\* C28 witness: a record with no input and no output but a joinsplit passes
\* CheckInputsAvailability
C28_Witness ==
    /\ call.op = "CheckInputsAvailability" /\ call.ret
    /\ tx.vin = <<>> /\ tx.vout = <<>> /\ Len(tx.vjoinsplit) = 1

\* a record with no vout and no joinsplit but a crosschain output passes
\* CheckOutputsAvailability
C28_CrosschainOnly ==
    /\ call.op = "CheckOutputsAvailability" /\ call.ret
    /\ tx.vout = <<>> /\ tx.vjoinsplit = <<>> /\ ~ccIsNull(tx)

----------------------------------------------------------------------------
(* C29                                                                     *)

\* the pay-to-pubkeyhash script of a hash
P2PKH(h) == <<OP_DUP, OP_HASH160, Uint160Size>> \o h \o <<OP_EQUALVERIFY, OP_CHECKSIG>>

\* C29: the output made from a backward transfer has its amount, the script
\* OP_DUP OP_HASH160 <hash> OP_EQUALVERIFY OP_CHECKSIG and the
\* backward-transfer flag set, and the backward transfer made from that
\* output has the amount and the public-key hash of the original.
C29_RoundTrip ==
    /\ call.op = "CTxOut(bt)" =>
          /\ call.val.nValue = call.arg.nValue
          /\ call.val.scriptPubKey = P2PKH(call.arg.pubKeyHash)
          /\ call.val.isFromBackwardTransfer
    /\ call.op = "CBackwardTransferOut(CTxOut(bt))" =>
          /\ call.val.txout.nValue = call.arg.nValue
          /\ call.val.txout.scriptPubKey = P2PKH(call.arg.pubKeyHash)
          /\ call.val.txout.isFromBackwardTransfer
          /\ call.val.bt = call.arg

\* C29 witness: a round trip of a hash that itself holds the OP_HASH160
\* byte and the length byte
C29_Witness ==
    /\ call.op = "CBackwardTransferOut(CTxOut(bt))"
    /\ call.arg.pubKeyHash[1] = OP_HASH160 /\ call.arg.pubKeyHash[2] = Uint160Size
    /\ call.arg.nValue = 1
    /\ call.val.bt = call.arg

----------------------------------------------------------------------------
(* C30                                                                     *)

\* the block linkage of an entry
Linkage(e) == [hashBlock |-> e.hashBlock, vMerkleBranch |-> e.vMerkleBranch, nIndex |-> e.nIndex]

\* C30: after a = b the record fields and cached hash, the note data and the
\* block linkage (hashBlock, vMerkleBranch, nIndex) of a are those of b.
C30_AssignCopiesLinkage ==
    call.op = "CWalletTx::operator=" =>
        /\ call.val.a.tx = call.val.b.tx
        /\ call.val.a.mapNoteData = call.val.b.mapNoteData
        /\ Linkage(call.val.a) = Linkage(call.val.b)

\* what the assignment does: the record and the note data of a are those of
\* b, and everything else of a is what it was before
C30_AssignKeepsLinkage ==
    call.op = "CWalletTx::operator=" =>
        /\ call.val.b = call.arg.b
        /\ call.val.a = [call.arg.a EXCEPT !.tx = call.arg.b.tx,
                                           !.mapNoteData = call.arg.b.mapNoteData]

\* an entry without block linkage was assigned to an entry linked to a
\* block, and the assigned entry is still linked to that block
C30_StaleLinkage ==
    /\ call.op = "CWalletTx::operator="
    /\ Linkage(call.arg.b) = NoLinkage
    /\ Linkage(call.arg.a) # NoLinkage
    /\ Linkage(call.val.a) = Linkage(call.arg.a)
    /\ call.val.a.tx = call.arg.b.tx /\ call.arg.a.tx # call.arg.b.tx

====
